---- MODULE Spec2Model ----
(***************************************************************************)
(* Narrative knowledge graph: the upload endpoint (api/knowledge.py), the  *)
(* ingestion of a file (knowledge_graph/knowledge.py), the build scheduler *)
(* (knowledge_graph/graph_builder_daemon.py) and the per-topic pipeline it *)
(* runs (knowledge_graph/graph_builder.py, knowledge_graph/graph.py), over *)
(* a local store and one tenant store.                                     *)
(***************************************************************************)
EXTENDS Integers, Sequences, FiniteSets, TLC

\* ------------------------------------------------------------------ bounds
\* Upload requests accepted by the model in one behaviour.
MaxRequests == 2
\* Files in one upload request.
MaxFiles == 2
\* Merges the optimizer carries out in one behaviour.
MaxMerges == 2
\* Runs of optimize_graph in one behaviour.
MaxRuns == 3
\* Issues the detector reports in one run.
MaxDetected == 1
\* Rows of the issue data frame the critics evaluate.
MaxRows == 2
MaxIssues == 3
max_concurrent_issues == 2
MaxGets == 2
MaxResults == 2

\* ------------------------------------------------------- stores and inputs
\* setting/db.py: DATABASE_URI, the URI of the local store.
LocalDatabaseUri == "local"
\* A database_uri form field that was not sent (None).
NoUri == "none"
\* The tenant stores that exist; any other non-local URI cannot be opened.
Tenants == {"t1"}
Stores == {LocalDatabaseUri} \cup Tenants
Topics == {"a", "b"}
Links == {"l1", "l2"}

MAX_FILE_SIZE == 10 * 1024 * 1024
ALLOWED_EXTENSIONS == {".pdf", ".md", ".txt", ".sql"}

\* The uploaded files: filename, extension, size and raw bytes. Two files
\* share a filename with different bytes, one is empty, one has an extension
\* outside the allowed set, one is one byte over the size limit.
FileA == [name |-> "a.md", ext |-> ".md", size |-> 2048, bytes |-> "c1"]
FileA2 == [name |-> "a.md", ext |-> ".md", size |-> MAX_FILE_SIZE, bytes |-> "c3"]
FileB == [name |-> "b.sql", ext |-> ".sql", size |-> 2048, bytes |-> "c2"]
FileEmpty == [name |-> "e.txt", ext |-> ".txt", size |-> 0, bytes |-> "c0"]
FileExe == [name |-> "x.exe", ext |-> ".exe", size |-> 2048, bytes |-> "c1"]
FileBig == [name |-> "big.pdf", ext |-> ".pdf", size |-> MAX_FILE_SIZE + 1,
            bytes |-> "c2"]
UploadFiles == {FileA, FileA2, FileB, FileEmpty, FileExe, FileBig}

\* hashlib.sha256(raw_content).hexdigest(): distinct bytes, distinct digests.
Sha256(bytes) == "h" \o bytes

\* etl.extract.extract_source_data(path)["content"], by content hash: the
\* empty file extracts to the empty text.
ExtractedContent(hash) == IF hash = "hc0" THEN "" ELSE hash

\* The triplets the LLM returns for a document text (the same text gives the
\* same answer): subject name, predicate, object name.
LLMTriplets(text) ==
    IF text = "hc1"
      THEN << [s |-> "A", p |-> "r", o |-> "B"], [s |-> "B", p |-> "r", o |-> "C"] >>
      ELSE << [s |-> "A", p |-> "r", o |-> "B"], [s |-> "A", p |-> "r", o |-> "B"] >>

\* An upload request: the form fields of POST /api/v1/knowledge/upload.
Request(topic, uri, files, links) ==
    [topic |-> topic, uri |-> uri, files |-> files, links |-> links]

\* The database_uri values a client sends: none, a tenant, a URI that cannot
\* be opened.
RequestUris == {NoUri, "t1", "bad"}

FileSeqs == UNION { [1..n -> UploadFiles] : n \in 0..MaxFiles }
LinkSeqs == UNION { [1..n -> Links] : n \in 0..MaxFiles }

\* Every request within the bounds: the inputs of the upload endpoint.
AllRequests ==
    { Request(t, u, fs, ls) : t \in {"a"}, u \in RequestUris,
                              fs \in FileSeqs, ls \in LinkSeqs }

\* The accepted requests the scheduler is run on: a document for the local
\* tenant, a second one for the same job, a tenant batch with one empty
\* file, a tenant batch with nothing but the empty file, and a second topic
\* of the tenant.
BuildRequests ==
    { Request("a", NoUri, << FileA >>, << "l1" >>),
      Request("a", NoUri, << FileB >>, << "l2" >>),
      Request("a", "t1", << FileA, FileEmpty >>, << "l1", "l2" >>),
      Request("a", "t1", << FileEmpty >>, << "l2" >>),
      Request("b", "t1", << FileB >>, << "l1" >>) }

\* --------------------------------------------------------------- variables
VARIABLES
    up,        \* up[t]: tenant store t can be opened
    disk,      \* UPLOAD_DIR/<topic>/<filename>/<filename> -> bytes saved there
    content,   \* content[st]: ContentStore rows of store st
    sources,   \* sources[st]: SourceData rows of store st
    gbs,       \* gbs[st]: GraphBuildStatus rows of store st
    clock,     \* func.current_timestamp() of the stores
    bp,        \* bp[st][topic]: number of AnalysisBlueprint rows
    ent,       \* ent[st]: Entity rows
    rel,       \* rel[st]: Relationship rows
    sgm,       \* sgm[st]: SourceGraphMapping rows
    pc,        \* where the scheduler is inside _process_pending_tasks
    run,       \* the locals of the poll in progress (task_info and Build's)
    req,       \* the upload request in progress
    nreq,      \* upload requests received so far
    resp,      \* the response to the last finished upload request
    par,       \* par[p]: the ingest of parallel request p
    opt,       \* the optimizer: its state file and what its last call did
    db         \* db_manager: user_connections and the threads in get_session_factory

vars == << up, disk, content, sources, gbs, clock, bp, ent, rel, sgm,
           pc, run, req, nreq, resp, par, opt, db >>

graphVars == << bp, ent, rel, sgm >>
ingestVars == << disk, content, sources >>
uploadVars == << req, nreq, resp >>

\* ------------------------------------------------------------ setting/db.py
IsLocalMode(database_uri) ==
    \/ database_uri = NoUri
    \/ database_uri = ""
    \/ database_uri = LocalDatabaseUri

\* The store a session factory for database_uri is bound to.
StoreOf(database_uri) ==
    IF IsLocalMode(database_uri) THEN LocalDatabaseUri ELSE database_uri

\* get_session_factory followed by a query: it raises for a store that
\* cannot be opened.
CanOpen(database_uri) ==
    \/ IsLocalMode(database_uri)
    \/ database_uri \in Tenants /\ up[database_uri]

\* DatabaseManager.__init__: no user connection; no thread is in
\* get_session_factory. created[uri] counts the engines (with their
\* session factories) made for uri; a factory is named by its number.
Threads == {1, 2}
NoDb == [user_connections |-> [t \in Tenants |-> 0],
         created |-> [t \in Tenants |-> 0],
         th |-> [p \in Threads |-> [at |-> "idle", uri |-> NoUri, gets |-> 0,
                                    returned |-> [kind |-> "none", n |-> 0]]]]

\* get_session_factory(database_uri) up to the test of user_connections:
\* local mode returns SessionLocal; a URI in the registry goes on to the
\* return statement, any other to the creation of a connection.
GetSessionFactory(p) ==
    /\ db.th[p].at = "idle"
    /\ db.th[p].gets < MaxGets
    /\ \E database_uri \in {LocalDatabaseUri} \cup Tenants :
         db' = [db EXCEPT
                  !.th[p] = [at |-> IF IsLocalMode(database_uri) THEN "idle"
                                    ELSE IF db.user_connections[database_uri] # 0
                                    THEN "return" ELSE "create",
                             uri |-> database_uri,
                             gets |-> @.gets + 1,
                             returned |-> [kind |-> IF IsLocalMode(database_uri)
                                                      THEN "SessionLocal" ELSE "none",
                                           n |-> 0]]]
    /\ UNCHANGED << up, ingestVars, gbs, clock, graphVars, pc, run, uploadVars, par, opt >>

\* create_engine, _create_user_tables and the insert into user_connections;
\* a store that cannot be opened raises and nothing is inserted.
CreateConnection(p) ==
    /\ db.th[p].at = "create"
    /\ LET database_uri == db.th[p].uri
       IN IF up[database_uri]
            THEN db' = [db EXCEPT
                          !.created[database_uri] = @ + 1,
                          !.user_connections[database_uri] =
                              db.created[database_uri] + 1,
                          !.th[p].at = "return"]
            ELSE db' = [db EXCEPT !.th[p].at = "idle", !.th[p].returned = [kind |-> "raised", n |-> 0]]
    /\ UNCHANGED << up, ingestVars, gbs, clock, graphVars, pc, run, uploadVars, par, opt >>

\* return self.user_connections[database_uri]
ReturnConnection(p) ==
    /\ db.th[p].at = "return"
    /\ db' = [db EXCEPT !.th[p].at = "idle",
                        !.th[p].returned = [kind |-> "sessionmaker",
                                            n |-> db.user_connections[db.th[p].uri]]]
    /\ UNCHANGED << up, ingestVars, gbs, clock, graphVars, pc, run, uploadVars, par, opt >>

ValidateDatabaseConnection(database_uri) == CanOpen(database_uri)

\* -------------------------------------------------- GraphBuildStatus rows
NoRun == [topic |-> "", uri |-> "", sids |-> {}, docs |-> {}, todo |-> {},
          cur |-> {}, trip |-> << >>, cache |-> {}, attempt |-> 0, error |-> ""]
NoReq == [active |-> FALSE]

\* KnowledgeBuilder.create_build_status_record: one row per
\* (topic, source_id, external_database_uri); an existing row stays as it is.
CreateBuildStatusRecord(rows, sid, topic, uri, now) ==
    IF \E r \in rows : r.topic = topic /\ r.sid = sid /\ r.uri = uri
      THEN rows
      ELSE rows \cup { [topic |-> topic, sid |-> sid, uri |-> uri,
                        status |-> "pending", sched |-> now, err |-> ""] }


\* ------------------------------------------------------- api/knowledge.py
\* _validate_file: 0 when the file passes, else the status code raised.
ValidateFile(f) ==
    IF f.ext \notin ALLOWED_EXTENSIONS THEN 400
    ELSE IF f.size > MAX_FILE_SIZE THEN 413
    ELSE 0

\* _save_uploaded_file: an existing UPLOAD_DIR/topic/filename directory is
\* returned as it is, without writing the uploaded bytes.
SaveUploadedFile(d, f, topic) ==
    IF d[<<topic, f.name>>] # "none" THEN d
    ELSE [d EXCEPT ![<<topic, f.name>>] = f.bytes]

\* The id of a new SourceData row (a fresh uuid).
NewSourceId(st, link) ==
    << st, link, Cardinality({s \in sources[st] : s.link = link}) >>

\* The lookup of the ContentStore row left out: no row is ever found.
FindNoContentStore(rows, hash) == {}

\* extract_knowledge: db.query(ContentStore).filter_by(content_hash=...).
FindContentStore(rows, hash) == {c \in rows : c.hash = hash}

\* extract_knowledge from the hash on: a new SourceData row, and a new
\* ContentStore row when no row has this content hash.
NewSource(st, bytes, link) ==
    LET hash == Sha256(bytes)
        found == FindContentStore(content[st], hash)
    IN [sid |-> NewSourceId(st, link),
        sources |-> sources[st] \cup
            { [id |-> NewSourceId(st, link), link |-> link, hash |-> hash] },
        content |-> IF found = {}
                      THEN content[st] \cup { [hash |-> hash, link |-> link] }
                      ELSE content[st],
        created |-> 1 + (IF found = {} THEN 1 ELSE 0)]

\* extract_knowledge without its lookup by link: a SourceData row is added on
\* every call.
ExtractKnowledgeWithoutLinkLookup(st, bytes, link) == NewSource(st, bytes, link)

\* KnowledgeBuilder.extract_knowledge on the bytes saved at the file's path:
\* the SourceData row with this link if there is one, else a new row (and a
\* new ContentStore row when the content hash is new).
ExtractKnowledge(st, bytes, link) ==
    LET existing == {s \in sources[st] : s.link = link}
    IN IF existing # {}
         THEN [sid |-> (CHOOSE s \in existing : TRUE).id,
               sources |-> sources[st], content |-> content[st], created |-> 0]
         ELSE NewSource(st, bytes, link)

NoResponse ==
    [code |-> 0, rejected |-> FALSE, ok |-> 0, failed |-> 0, created |-> 0,
     total |-> 0]

\* The response once the file loop is over: 400 when every file failed.
BatchResponse(ok, failed, created, total) ==
    [code |-> IF ok = 0 /\ failed > 0 THEN 400 ELSE 200, rejected |-> FALSE,
     ok |-> ok, failed |-> failed, created |-> created, total |-> total]

\* A request refused by a check of upload_documents or of _validate_file (an
\* HTTPException), with the rows the request had created by then.
Rejected(code, created, total) ==
    [code |-> code, rejected |-> TRUE, ok |-> 0, failed |-> 0,
     created |-> created, total |-> total]

\* The checks of upload_documents before the file loop: 0, or the status
\* code of the HTTPException raised.
RequestCheck(files, links, database_uri) ==
    IF Len(files) = 0 THEN 400
    ELSE IF Len(links) = 0 THEN 400
    ELSE IF Len(files) # Len(links) THEN 400
    ELSE IF Len(links) # Cardinality({links[i] : i \in 1..Len(links)}) THEN 400
    ELSE IF database_uri \notin {NoUri, ""}
            /\ ~ValidateDatabaseConnection(database_uri) THEN 400
    ELSE 0

\* upload_documents up to the file loop, for a request of the set R.
UploadBegin(R) ==
    /\ ~req.active
    /\ nreq < MaxRequests
    /\ \E r \in R :
         IF RequestCheck(r.files, r.links, r.uri) # 0
           THEN /\ resp' = Rejected(RequestCheck(r.files, r.links, r.uri), 0,
                                    Len(r.files))
                /\ req' = NoReq
           ELSE /\ req' = [active |-> TRUE, topic |-> r.topic, uri |-> r.uri,
                           files |-> r.files, links |-> r.links,
                           total |-> Len(r.files),
                           ok |-> 0, failed |-> 0, created |-> 0]
                /\ resp' = NoResponse
    /\ nreq' = nreq + 1
    /\ clock' \in {clock, clock + 1}
    /\ UNCHANGED << up, ingestVars, gbs, graphVars, pc, run, par, opt, db >>

\* The request after one more file: the loop goes on, or the response is sent.
AfterFile(ok, failed, created) ==
    IF Len(req.files) > 1
      THEN /\ req' = [req EXCEPT !.files = Tail(@), !.links = Tail(@),
                                 !.ok = ok, !.failed = failed, !.created = created]
           /\ UNCHANGED resp
      ELSE /\ req' = NoReq
           /\ resp' = BatchResponse(ok, failed, created, req.total)

\* One round of the file loop: _validate_file raises an HTTPException, which
\* the loop re-raises: the request ends there.
UploadFileInvalid ==
    /\ req.active
    /\ ValidateFile(Head(req.files)) # 0
    /\ req' = NoReq
    /\ resp' = Rejected(ValidateFile(Head(req.files)), req.created, req.total)
    /\ UNCHANGED << up, ingestVars, gbs, clock, graphVars, pc, run, nreq, par, opt, db >>

\* One round of the file loop: the file is saved, then _process_document
\* raises because the target store cannot be opened.
UploadFileFailed ==
    /\ req.active
    /\ ValidateFile(Head(req.files)) = 0
    /\ ~CanOpen(req.uri)
    /\ disk' = SaveUploadedFile(disk, Head(req.files), req.topic)
    /\ AfterFile(req.ok, req.failed + 1, req.created)
    /\ UNCHANGED << up, content, sources, gbs, clock, graphVars, pc, run, nreq, par, opt, db >>

\* One round of the file loop: the file is saved and ingested, and its build
\* status rows are created, in the tenant store first and the local store
\* second.
UploadFileProcessed ==
    /\ req.active
    /\ ValidateFile(Head(req.files)) = 0
    /\ CanOpen(req.uri)
    /\ LET f == Head(req.files)
           st == StoreOf(req.uri)
           d == SaveUploadedFile(disk, f, req.topic)
           r == ExtractKnowledge(st, d[<<req.topic, f.name>>], Head(req.links))
           own == CreateBuildStatusRecord(gbs[st], r.sid, req.topic, "", clock)
           g1 == [gbs EXCEPT ![st] = own]
           g2 == IF IsLocalMode(req.uri) THEN g1
                 ELSE [g1 EXCEPT ![LocalDatabaseUri] =
                          CreateBuildStatusRecord(@, r.sid, req.topic, req.uri, clock)]
           made == r.created
                   + Cardinality(g2[st]) - Cardinality(gbs[st])
                   + (IF IsLocalMode(req.uri) THEN 0
                      ELSE Cardinality(g2[LocalDatabaseUri])
                           - Cardinality(gbs[LocalDatabaseUri]))
       IN /\ disk' = d
          /\ sources' = [sources EXCEPT ![st] = r.sources]
          /\ content' = [content EXCEPT ![st] = r.content]
          /\ gbs' = g2
          /\ AfterFile(req.ok + 1, req.failed, req.created + made)
    /\ UNCHANGED << up, clock, graphVars, pc, run, nreq, par, opt, db >>

\* The build status rows had the local mirror been written before the
\* tenant's row, when the write that comes second raises: the local row alone.
RowsWhenSecondWriteRaisesLocalFirst(g, st, sid, topic, uri, now) ==
    [g EXCEPT ![LocalDatabaseUri] = CreateBuildStatusRecord(@, sid, topic, uri, now)]

\* _process_document in multi-database mode when the second
\* create_build_status_record raises: the tenant's row is committed, the
\* local mirror is not.
RowsWhenSecondWriteRaises(g, st, sid, topic, uri, now) ==
    [g EXCEPT ![st] = CreateBuildStatusRecord(@, sid, topic, "", now)]

\* One round of the file loop: the file is saved and ingested in a tenant
\* store, the tenant's build status row is created, and the write of the
\* local mirror raises: the file is reported as failed.
UploadFileMirrorFailed ==
    /\ req.active
    /\ ValidateFile(Head(req.files)) = 0
    /\ CanOpen(req.uri)
    /\ ~IsLocalMode(req.uri)
    /\ LET f == Head(req.files)
           st == StoreOf(req.uri)
           d == SaveUploadedFile(disk, f, req.topic)
           r == ExtractKnowledge(st, d[<<req.topic, f.name>>], Head(req.links))
           g == RowsWhenSecondWriteRaises(gbs, st, r.sid, req.topic, req.uri, clock)
           made == r.created
                   + Cardinality(g[st]) - Cardinality(gbs[st])
                   + Cardinality(g[LocalDatabaseUri])
                   - Cardinality(gbs[LocalDatabaseUri])
       IN /\ disk' = d
          /\ sources' = [sources EXCEPT ![st] = r.sources]
          /\ content' = [content EXCEPT ![st] = r.content]
          /\ gbs' = g
          /\ AfterFile(req.ok, req.failed + 1, req.created + made)
    /\ UNCHANGED << up, clock, graphVars, pc, run, nreq, par, opt, db >>

\* ------------------------------------- knowledge.py, requests in parallel
\* The upload requests that call extract_knowledge at the same time.
Procs == {1, 2}

NoIngest == [at |-> "idle"]

\* The unique index of SourceData.link: an INSERT of a second row with the
\* link of an existing row is refused by the store.
UniqueLinkViolated(rows, link) == \E s \in rows : s.link = link

\* extract_knowledge with the exception of its commit swallowed: success is
\* returned whether or not the row was inserted.
ReturnedAnyway(sid, raised) == [ok |-> TRUE, sid |-> sid]

\* The end of extract_knowledge: an exception raised by db.commit() leaves
\* the function, otherwise the id of the new row is returned.
Returned(sid, raised) == [ok |-> ~raised, sid |-> sid]

\* extract_knowledge, its first session: the lookup by link. A row that is
\* found is returned; otherwise the request goes on to read the file.
IngestLookup(p) ==
    /\ par[p].at = "idle"
    /\ \E st \in Stores : \E link \in Links : \E f \in {FileA, FileB} :
         LET existing == {s \in sources[st] : s.link = link}
         IN par' = [par EXCEPT ![p] =
                [at |-> IF existing # {} THEN "done" ELSE "read",
                 st |-> st, link |-> link, bytes |-> f.bytes,
                 ok |-> existing # {},
                 sid |-> IF existing # {}
                           THEN (CHOOSE s \in existing : TRUE).id
                           ELSE << >>]]
    /\ UNCHANGED << up, ingestVars, gbs, clock, graphVars, pc, run, uploadVars, opt, db >>

\* extract_knowledge, its second session: the ContentStore and SourceData
\* rows are added and committed, unless the store refuses the link.
IngestCommit(p) ==
    /\ par[p].at = "read"
    /\ LET me == par[p]
           raised == UniqueLinkViolated(sources[me.st], me.link)
           r == NewSource(me.st, me.bytes, me.link)
           out == Returned(r.sid, raised)
       IN /\ par' = [par EXCEPT ![p] = [me EXCEPT !.at = "done", !.ok = out.ok,
                                                  !.sid = out.sid]]
          /\ IF raised
               THEN UNCHANGED << sources, content >>
               ELSE /\ sources' = [sources EXCEPT ![me.st] = r.sources]
                    /\ content' = [content EXCEPT ![me.st] = r.content]
    /\ UNCHANGED << up, disk, gbs, clock, graphVars, pc, run, uploadVars, opt, db >>

\* The request is answered; the next request of this worker can come.
IngestReturn(p) ==
    /\ par[p].at = "done"
    /\ par' = [par EXCEPT ![p] = NoIngest]
    /\ UNCHANGED << up, ingestVars, gbs, clock, graphVars, pc, run, uploadVars, opt, db >>

\* ----------------------------------------------------------- environment
\* A tenant store becomes unreachable, or reachable again.
TenantFlip ==
    /\ \E t \in Tenants : up' = [up EXCEPT ![t] = ~@]
    /\ UNCHANGED << ingestVars, gbs, clock, graphVars, pc, run, uploadVars, par, opt, db >>

\* ------------------------------------------- knowledge_graph/graph.py
\* generate_analysis_blueprint without the lookup of an existing blueprint
\* (as with force_regenerate): a row is inserted on every call.
GenerateAnalysisBlueprintAnew(n) == n + 1

\* generate_analysis_blueprint, on the number of AnalysisBlueprint rows of the
\* topic: an existing blueprint is reused (force_regenerate is False), and a
\* row is inserted when there is none.
GenerateAnalysisBlueprint(n) == IF n > 0 THEN n ELSE 1

\* The Entity rows with this name in this topic.
FindEntity(E, name, topic) == {e \in E : e.name = name /\ e.topic = topic}

\* A new Entity row of a triplet (n stands for its fresh uuid); topic and
\* category are attributes.topic_name and attributes.category, "none" for a
\* key that is not there.
NewEntity(E, name, topic) ==
    [name |-> name, topic |-> topic, category |-> "narrative",
     n |-> Cardinality(FindEntity(E, name, topic))]

\* The Relationship rows with these endpoints and this description.
FindRelationship(R, src, tgt, desc) ==
    {r \in R : r.src = src /\ r.tgt = tgt /\ r.desc = desc}

\* A new Relationship row; its id (a fresh uuid) is told apart by what the
\* row holds when it is created.
NewRelationship(R, src, tgt, desc) ==
    [id |-> [src |-> src, tgt |-> tgt, desc |-> desc,
             n |-> Cardinality(FindRelationship(R, src, tgt, desc))],
     src |-> src, tgt |-> tgt, desc |-> desc,
     attrs |-> [topic_name |-> src.topic, category |-> "narrative"]]

\* _create_source_mapping: the mapping row is added unless a row with this
\* source, element, type and topic exists.
CreateSourceMapping(M, sid, element, type, topic) ==
    IF \E m \in M : /\ m.sid = sid /\ m.elem = element
                    /\ m.type = type /\ m.topic = topic
      THEN M
      ELSE M \cup { [id |-> [sid |-> sid, elem |-> element, type |-> type],
                     sid |-> sid, elem |-> element, type |-> type,
                     topic |-> topic] }

\* The entity of a triplet's subject or object: the id cached under the name,
\* else the row found by (name, topic_name), else a new row.
ResolveEntity(E, cache, name, topic) ==
    IF \E c \in cache : c[1] = name
      THEN (CHOOSE c \in cache : c[1] = name)[2]
      ELSE IF FindEntity(E, name, topic) # {}
        THEN CHOOSE e \in FindEntity(E, name, topic) : TRUE
        ELSE NewEntity(E, name, topic)

\* The relationship of a triplet: the row found by (src, tgt, desc), else a
\* new row.
ResolveRelationship(R, src, tgt, desc) ==
    IF FindRelationship(R, src, tgt, desc) # {}
      THEN CHOOSE r \in FindRelationship(R, src, tgt, desc) : TRUE
      ELSE NewRelationship(R, src, tgt, desc)

\* The Entity rows after the entity of a name was resolved: a row is added
\* only when the name is not in the cache (and then only if none was found).
WithEntity(E, cache, name, e) ==
    IF \E c \in cache : c[1] = name THEN E ELSE E \cup {e}

\* process_single_triplet: one transaction of convert_triplets_to_graph, on
\* the Entity, Relationship and SourceGraphMapping rows of the store.
ProcessSingleTriplet(E, R, M, cache, t, topic, sid) ==
    LET subj == ResolveEntity(E, cache, t.s, topic)
        E1 == WithEntity(E, cache, t.s, subj)
        c1 == cache \cup {<<t.s, subj>>}
        M1 == CreateSourceMapping(M, sid, subj, "entity", topic)
        obj == ResolveEntity(E1, c1, t.o, topic)
        E2 == WithEntity(E1, c1, t.o, obj)
        c2 == c1 \cup {<<t.o, obj>>}
        M2 == CreateSourceMapping(M1, sid, obj, "entity", topic)
        r == ResolveRelationship(R, subj, obj, t.p)
        M3 == CreateSourceMapping(M2, sid, r.id, "relationship", topic)
    IN [ent |-> E2, rel |-> R \cup {r}, sgm |-> M3, cache |-> c2]

\* What enhance_knowledge_graph_with_reasoning can give as one enhanced
\* relationship: subject, predicate, object, and the category that the LLM
\* puts into the attributes of its entities and of the relationship ("none"
\* when it puts none); topic_name is the topic's.
EnhancedRelationships ==
    { [s |-> n, p |-> "r", o |-> "B", category |-> c] :
        n \in {"A", "C"}, c \in {"none", "reasoning"} }

\* The entity of an enhanced relationship's subject or object: the id cached
\* under the name, else the row found by (name, topic_name), else a new row
\* with the LLM's attributes and topic_name.
ResolveEnhancedEntity(E, cache, name, topic, category) ==
    IF \E c \in cache : c[1] = name
      THEN (CHOOSE c \in cache : c[1] = name)[2]
      ELSE IF FindEntity(E, name, topic) # {}
        THEN CHOOSE e \in FindEntity(E, name, topic) : TRUE
        ELSE [name |-> name, topic |-> topic, category |-> category,
              n |-> Cardinality(FindEntity(E, name, topic))]

\* _create_source_mapping for an entity of an enhanced relationship: only
\* when the name was not in the cache.
WithEntityMapping(M, cache, name, sid, e, topic) ==
    IF \E c \in cache : c[1] = name THEN M
    ELSE CreateSourceMapping(M, sid, e, "entity", topic)

\* process_enhanced_relationship: one transaction of
\* convert_reasoning_results_to_graph. A relationship that exists gets the
\* LLM's attributes merged into its own and nothing else; a new one is added
\* with the LLM's attributes and topic_name, and mapped to the source.
ProcessEnhancedRelationship(E, R, M, cache, t, topic, sid) ==
    LET subj == ResolveEnhancedEntity(E, cache, t.s, topic, t.category)
        E1 == WithEntity(E, cache, t.s, subj)
        M1 == WithEntityMapping(M, cache, t.s, sid, subj, topic)
        c1 == cache \cup {<<t.s, subj>>}
        obj == ResolveEnhancedEntity(E1, c1, t.o, topic, t.category)
        E2 == WithEntity(E1, c1, t.o, obj)
        M2 == WithEntityMapping(M1, c1, t.o, sid, obj, topic)
        c2 == c1 \cup {<<t.o, obj>>}
        existing_rel == FindRelationship(R, subj, obj, t.p)
    IN IF existing_rel = {}
         THEN LET new_relationship ==
                      [NewRelationship(R, subj, obj, t.p) EXCEPT
                          !.attrs = [topic_name |-> topic, category |-> t.category]]
              IN [ent |-> E2, rel |-> R \cup {new_relationship},
                  sgm |-> CreateSourceMapping(M2, sid, new_relationship.id,
                                              "relationship", topic),
                  cache |-> c2]
         ELSE LET r == CHOOSE x \in existing_rel : TRUE
              IN [ent |-> E2,
                  rel |-> (R \ {r}) \cup
                          { [r EXCEPT !.attrs.category =
                                        IF t.category # "none" THEN t.category ELSE @] },
                  sgm |-> M2, cache |-> c2]

\* convert_reasoning_results_to_graph: the enhanced relationships, one
\* transaction each, with the entity cache of this call.
RECURSIVE ConvertReasoningResultsToGraph(_, _, _, _, _, _, _)
ConvertReasoningResultsToGraph(E, R, M, cache, results, topic, sid) ==
    IF results = << >>
      THEN [ent |-> E, rel |-> R, sgm |-> M, cache |-> cache]
      ELSE LET r == ProcessEnhancedRelationship(E, R, M, cache, Head(results),
                                                topic, sid)
           IN ConvertReasoningResultsToGraph(r.ent, r.rel, r.sgm, r.cache,
                                             Tail(results), topic, sid)

\* The check that opens extract_triplets_from_document: the source has a
\* SourceGraphMapping row in this topic.
AlreadyProcessed(M, sid, topic) == \E m \in M : m.sid = sid /\ m.topic = topic

\* extract_triplets_from_document: nothing for a document that is already
\* processed, else the LLM's triplets for its text.
ExtractTripletsFromDocument(M, sid, text, topic) ==
    IF AlreadyProcessed(M, sid, topic) THEN << >> ELSE LLMTriplets(text)

\* SourceData.content of a source.
SourceText(st, sid) ==
    ExtractedContent((CHOOSE s \in sources[st] : s.id = sid).hash)

\* convert_triplets_to_graph: the triplets of one document, one transaction
\* each, with the entity cache of this call.
RECURSIVE ConvertTripletsToGraph(_, _, _, _, _, _, _)
ConvertTripletsToGraph(E, R, M, cache, triplets, topic, sid) ==
    IF triplets = << >>
      THEN [ent |-> E, rel |-> R, sgm |-> M, cache |-> cache]
      ELSE LET r == ProcessSingleTriplet(E, R, M, cache, Head(triplets), topic, sid)
           IN ConvertTripletsToGraph(r.ent, r.rel, r.sgm, r.cache, Tail(triplets),
                                     topic, sid)

\* The document loop of build_knowledge_graph on the graph rows G of store st,
\* the documents taken in the given order.
RECURSIVE BuildDocuments(_, _, _, _)
BuildDocuments(G, st, topic, order) ==
    IF order = << >> THEN G
    ELSE LET d == Head(order)
             r == ConvertTripletsToGraph(
                      G.ent, G.rel, G.sgm, {},
                      ExtractTripletsFromDocument(G.sgm, d, SourceText(st, d), topic),
                      topic, d)
         IN BuildDocuments([G EXCEPT !.ent = r.ent, !.rel = r.rel, !.sgm = r.sgm],
                           st, topic, Tail(order))

\* KnowledgeGraphBuilder.build_knowledge_graph when no stage raises: the
\* blueprint, then the documents.
BuildKnowledgeGraph(G, st, topic, order) ==
    BuildDocuments([G EXCEPT !.bp = GenerateAnalysisBlueprint(@)], st, topic, order)

\* The graph rows of store st that a Build of the topic reads and writes.
GraphRows(st, topic) ==
    [bp |-> bp[st][topic], ent |-> ent[st], rel |-> rel[st], sgm |-> sgm[st]]

\* ------------------------------ knowledge_graph/graph_builder_daemon.py
\* The status filter with failed rows left in: a failed row is picked up again.
OutstandingOrFailed == {"pending", "processing", "failed"}

\* The status filter of _get_earliest_pending_task and of
\* _get_pending_tasks_for_topic_and_db.
Outstanding == {"pending", "processing"}

\* _get_earliest_pending_task without its order_by: any outstanding row.
GetAnyPendingTask(rows) == {r \in rows : r.status \in Outstanding}

\* _get_earliest_pending_task: the rows order_by(scheduled_at.asc()).first()
\* can return (any of the rows that share the smallest scheduled_at).
GetEarliestPendingTask(rows) ==
    {r \in rows : /\ r.status \in Outstanding
                  /\ \A q \in rows : q.status \in Outstanding => r.sched <= q.sched}

\* _get_pending_tasks_for_topic_and_db selecting only the rows in processing.
GetProcessingTasksForTopicAndDb(rows, topic, uri) ==
    {r \in rows : r.status = "processing" /\ r.topic = topic /\ r.uri = uri}

\* _get_pending_tasks_for_topic_and_db: the outstanding rows of one job.
GetPendingTasksForTopicAndDb(rows, topic, uri) ==
    {r \in rows : r.status \in Outstanding /\ r.topic = topic /\ r.uri = uri}

\* The UPDATE without its source_id filter: every row of the job's topic and
\* database is written.
UpdateTaskStatusOfTopic(rows, topic, sids, uri, status, err) ==
    { IF r.topic = topic /\ r.uri = uri
        THEN [r EXCEPT !.status = status, !.err = IF err # "" THEN err ELSE @]
        ELSE r : r \in rows }

\* The UPDATE of _update_task_status and of _update_final_status.
UpdateTaskStatus(rows, topic, sids, uri, status, err) ==
    { IF r.topic = topic /\ r.sid \in sids /\ r.uri = uri
        THEN [r EXCEPT !.status = status, !.err = IF err # "" THEN err ELSE @]
        ELSE r : r \in rows }

\* _update_final_status: the local rows, then the tenant's rows (which carry
\* an empty external_database_uri); an exception is logged, not raised.
UpdateFinalStatus(g, topic, sids, uri, status, err) ==
    LET g1 == [g EXCEPT ![LocalDatabaseUri] =
                  UpdateTaskStatus(@, topic, sids, uri, status, err)]
    IN IF IsLocalMode(uri) THEN g1
       ELSE IF CanOpen(uri)
         THEN [g1 EXCEPT ![uri] = UpdateTaskStatus(@, topic, sids, "", status, err)]
         ELSE g1

\* _create_source_list without its content check: every source fetched.
CreateSourceListUnchecked(srcs, sids) == {s.id : s \in {x \in srcs : x.id \in sids}}

\* _create_source_list: the ids of the SourceData rows that have content.
CreateSourceList(srcs, sids) ==
    {s.id : s \in {x \in srcs : x.id \in sids /\ ExtractedContent(x.hash) # ""}}

\* _prepare_task_build up to the commit of _update_task_status.
Prepare ==
    /\ pc = "idle"
    /\ \E task \in GetEarliestPendingTask(gbs[LocalDatabaseUri]) :
         LET tasks == GetPendingTasksForTopicAndDb(gbs[LocalDatabaseUri],
                                                   task.topic, task.uri)
             sids == {r.sid : r \in tasks}
         IN /\ gbs' = [gbs EXCEPT ![LocalDatabaseUri] =
                          UpdateTaskStatus(@, task.topic, sids, task.uri,
                                           "processing", "")]
            /\ run' = [NoRun EXCEPT !.topic = task.topic, !.uri = task.uri,
                                    !.sids = sids]
    /\ pc' = "fetch"
    /\ UNCHANGED << up, ingestVars, clock, graphVars, uploadVars, par, opt, db >>

\* _prepare_task_build: the tenant's session factory or its query raises; the
\* exception leaves _process_pending_tasks and is logged by start().
FetchRaises ==
    /\ pc = "fetch"
    /\ ~CanOpen(run.uri)
    /\ pc' = "idle"
    /\ run' = NoRun
    /\ UNCHANGED << up, ingestVars, gbs, clock, graphVars, uploadVars, par, opt, db >>

\* _prepare_task_build: the sources are fetched; with none that has content
\* the rows are failed, else _process_task is entered.
Fetch ==
    /\ pc = "fetch"
    /\ CanOpen(run.uri)
    /\ LET docs == CreateSourceList(sources[StoreOf(run.uri)], run.sids)
       IN IF docs = {}
            THEN /\ gbs' = UpdateFinalStatus(gbs, run.topic, run.sids, run.uri,
                                             "failed", "No valid sources found")
                 /\ pc' = "idle"
                 /\ run' = NoRun
            ELSE /\ pc' = "start"
                 /\ run' = [run EXCEPT !.docs = docs, !.todo = docs]
                 /\ UNCHANGED gbs
    /\ UNCHANGED << up, ingestVars, clock, graphVars, uploadVars, par, opt, db >>

\* Where build_knowledge_graph stands once a document is done: after the
\* last one it returns.
AfterDocument(todo) == IF todo = {} THEN "final" ELSE "docs"

\* _process_task up to generate_analysis_blueprint.
StartBuild ==
    /\ pc = "start"
    /\ CanOpen(run.uri)
    /\ bp' = [bp EXCEPT ![StoreOf(run.uri)][run.topic] = GenerateAnalysisBlueprint(@)]
    /\ pc' = "docs"
    /\ UNCHANGED << up, ingestVars, gbs, clock, ent, rel, sgm, run, uploadVars, par, opt, db >>

\* build_knowledge_graph, one round of its document loop up to the call of
\* convert_triplets_to_graph.
ExtractDocument ==
    /\ pc = "docs"
    /\ CanOpen(run.uri)
    /\ \E d \in run.todo :
         LET st == StoreOf(run.uri)
             triplets == ExtractTripletsFromDocument(sgm[st], d, SourceText(st, d),
                                                     run.topic)
         IN IF triplets = << >>
              THEN /\ run' = [run EXCEPT !.todo = @ \ {d}]
                   /\ pc' = AfterDocument(run.todo \ {d})
              ELSE /\ run' = [run EXCEPT !.cur = {d}, !.trip = triplets,
                                         !.cache = {}]
                   /\ pc' = "convert"
    /\ UNCHANGED << up, ingestVars, gbs, clock, graphVars, uploadVars, par, opt, db >>

\* convert_triplets_to_graph, one round of its loop: the transaction of one
\* triplet commits.
ConvertTriplet ==
    /\ pc = "convert"
    /\ CanOpen(run.uri)
    /\ LET st == StoreOf(run.uri)
           d == CHOOSE x \in run.cur : TRUE
           r == ProcessSingleTriplet(ent[st], rel[st], sgm[st], run.cache,
                                     Head(run.trip), run.topic, d)
       IN /\ ent' = [ent EXCEPT ![st] = r.ent]
          /\ rel' = [rel EXCEPT ![st] = r.rel]
          /\ sgm' = [sgm EXCEPT ![st] = r.sgm]
          /\ IF Len(run.trip) > 1
               THEN /\ run' = [run EXCEPT !.trip = Tail(@), !.cache = r.cache,
                                          !.attempt = 0, !.error = ""]
                    /\ UNCHANGED pc
               ELSE /\ run' = [run EXCEPT !.trip = << >>, !.cache = {},
                                          !.cur = {}, !.todo = @ \ {d},
                                          !.attempt = 0, !.error = ""]
                    /\ pc' = AfterDocument(run.todo \ {d})
    /\ UNCHANGED << up, ingestVars, gbs, clock, bp, uploadVars, par, opt, db >>

\* The texts of the exceptions a triplet's transaction can raise: the two
\* that _simple_retry takes for a lost connection, and another one.
ConnectionLost == {"Lost connection", "MySQL server has gone away"}
Errors == ConnectionLost \cup {"Deadlock found"}

\* _simple_retry's max_retries.
max_retries == 3

\* _simple_retry retrying on every exception.
SimpleRetryOnAnyError(attempt, e) ==
    IF attempt < max_retries - 1 THEN "retry" ELSE "raise"

\* _simple_retry, what it does with exception e of attempt number attempt
\* (counted from 0): sleep and call again, or raise e.
SimpleRetry(attempt, e) ==
    IF e \in ConnectionLost /\ attempt < max_retries - 1 THEN "retry" ELSE "raise"

\* convert_triplets_to_graph, one round of its loop fails and _simple_retry
\* calls process_single_triplet again: the transaction is rolled back, so
\* the rows it had flushed are gone, while entity_id_cache keeps the ids it
\* was given before the failure (none, the subject's, or the subject's and
\* the object's).
ConvertTripletRetried ==
    /\ pc = "convert"
    /\ CanOpen(run.uri)
    /\ LET st == StoreOf(run.uri)
           t == Head(run.trip)
           subj == ResolveEntity(ent[st], run.cache, t.s, run.topic)
           afterSubject == run.cache \cup {<< t.s, subj >>}
           obj == ResolveEntity(WithEntity(ent[st], run.cache, t.s, subj),
                                afterSubject, t.o, run.topic)
           afterObject == afterSubject \cup {<< t.o, obj >>}
       IN \E e \in Errors :
          \E cache \in {run.cache, afterSubject, afterObject} :
             /\ SimpleRetry(run.attempt, e) = "retry"
             /\ run' = [run EXCEPT !.cache = cache, !.attempt = @ + 1, !.error = e]
    /\ UNCHANGED << up, ingestVars, gbs, clock, graphVars, pc, uploadVars, par, opt, db >>

\* convert_triplets_to_graph, one round of its loop fails and _simple_retry
\* raises: the transaction is rolled back, the RuntimeError leaves
\* convert_triplets_to_graph and build_knowledge_graph, and
\* _process_pending_tasks fails the job's rows with the exception's text.
ConvertTripletRaises ==
    /\ pc = "convert"
    /\ CanOpen(run.uri)
    /\ \E e \in Errors :
         /\ SimpleRetry(run.attempt, e) = "raise"
         /\ gbs' = UpdateFinalStatus(gbs, run.topic, run.sids, run.uri, "failed", e)
    /\ pc' = "idle"
    /\ run' = NoRun
    /\ UNCHANGED << up, ingestVars, clock, graphVars, uploadVars, par, opt, db >>

\* _process_pending_tasks: _process_task raises (the store cannot be opened,
\* an LLM call or a transaction fails) and the rows are failed.
BuildRaises ==
    /\ pc \in {"start", "docs", "convert"}
    /\ gbs' = UpdateFinalStatus(gbs, run.topic, run.sids, run.uri, "failed",
                                "Graph build failed")
    /\ pc' = "idle"
    /\ run' = NoRun
    /\ UNCHANGED << up, ingestVars, clock, graphVars, uploadVars, par, opt, db >>

\* _process_task after build_knowledge_graph returned.
Final ==
    /\ pc = "final"
    /\ gbs' = UpdateFinalStatus(gbs, run.topic, run.sids, run.uri, "completed", "")
    /\ pc' = "idle"
    /\ run' = NoRun
    /\ UNCHANGED << up, ingestVars, clock, graphVars, uploadVars, par, opt, db >>

\* The scheduler process is killed and started again: start() finds the
\* stores as the last commit left them.
Crash ==
    /\ pc # "idle"
    /\ pc' = "idle"
    /\ run' = NoRun
    /\ UNCHANGED << up, ingestVars, gbs, clock, graphVars, uploadVars, par, opt, db >>

\* ------------------------------------------------------ opt/optimizer.py
\* The processor before a call of process_issues_by_type.
NoProc == [phase |-> "idle", keys |-> {}, pending |-> << >>, running |-> {},
           handed |-> << >>,
           batches |-> 0, saved |-> 0]

\* The optimizer before its first call; database_uri is
\* OptimizationConfig.database_uri.
NoOpt == [issues |-> << >>, runs |-> 0, merges |-> 0, df |-> << >>, cache |-> {},
          proc |-> NoProc, database_uri |-> NoUri,
          last |-> [op |-> "none", ok |-> FALSE, committed |-> FALSE, ids |-> {}]]

\* The triplets of the graphs the optimizer is run on: two entity names for
\* one thing (A, A2) and two descriptions of one relation (r, r2).
OptTriplets ==
    { [s |-> "A", p |-> "r", o |-> "B"], [s |-> "A", p |-> "r2", o |-> "B"],
      [s |-> "A2", p |-> "r", o |-> "B"], [s |-> "B", p |-> "r", o |-> "A"] }

\* An entity id that no row has (its entity was removed earlier).
GoneEntity == [name |-> "gone", topic |-> "a", category |-> "narrative", n |-> 0]

\* The names merge_entity's LLM can give to the merged entity: a new one, or
\* one that an entity of the graph may have.
MergedNames == {"M", "B"}

\* The topic_name merge_entity's LLM can put into the merged entity's
\* attributes: that of the originals, or none.
MergedTopics(found) == { e.topic : e \in found } \cup {"none"}

\* merge_entity: the entity the LLM proposes for the originals, as the row
\* that entity_model(...) and session.flush() make of it (n stands for its
\* fresh uuid). Its attributes are the LLM's: they hold the topic_name and
\* the category of the originals, or neither.
MergedEntity(name, topic, stamp) ==
    [name |-> name, topic |-> topic,
     category |-> IF topic = "none" THEN "none" ELSE "narrative", n |-> 1 + stamp]

\* The transaction of process_redundancy_entity_issue with the relationships
\* left as they are (step 2 left out).
ProcessRedundancyEntityIssueWithoutRepair(E, R, M, found, merged) ==
    [ent |-> (E \cup {merged}) \ found,
     rel |-> R,
     sgm |-> { IF m.type = "entity" /\ m.elem \in found
                 THEN [m EXCEPT !.elem = merged] ELSE m : m \in M }]

\* The transaction of process_redundancy_entity_issue: the merged entity is
\* added, the relationships and the entity mappings that point at an
\* original are pointed at it, and the originals are deleted.
ProcessRedundancyEntityIssue(E, R, M, found, merged) ==
    [ent |-> (E \cup {merged}) \ found,
     rel |-> { [r EXCEPT !.src = IF @ \in found THEN merged ELSE @,
                         !.tgt = IF @ \in found THEN merged ELSE @] : r \in R },
     sgm |-> { IF m.type = "entity" /\ m.elem \in found
                 THEN [m EXCEPT !.elem = merged] ELSE m : m \in M }]

\* What a call of a resolver leaves in the optimizer's bookkeeping.
Called(op, ok, committed, ids) ==
    [opt EXCEPT !.merges = @ + 1,
                !.last = [op |-> op, ok |-> ok, committed |-> committed, ids |-> ids]]

\* process_redundancy_entity_issue(row_issue): the affected entities are
\* queried; with none found, with an invalid answer of the LLM or with an
\* exception (rolled back) nothing is written and False is returned.
MergeEntity ==
    /\ opt.merges < MaxMerges
    /\ \E ids \in SUBSET (ent[LocalDatabaseUri] \cup {GoneEntity}) :
       \E outcome \in {"merged", "invalid", "raised"} :
       \E name \in MergedNames :
       \E topic \in MergedTopics(ent[LocalDatabaseUri] \cap ids) :
         LET found == ent[LocalDatabaseUri] \cap ids
             g == ProcessRedundancyEntityIssue(
                      ent[LocalDatabaseUri], rel[LocalDatabaseUri],
                      sgm[LocalDatabaseUri], found,
                      MergedEntity(name, topic, opt.merges))
         IN /\ ids # {}
            \* the LLM's entity matters only when the merge is carried out
            /\ (found # {} /\ outcome = "merged") \/ (name = "M" /\ topic = "none")
            /\ IF found # {} /\ outcome = "merged"
                 THEN /\ ent' = [ent EXCEPT ![LocalDatabaseUri] = g.ent]
                      /\ rel' = [rel EXCEPT ![LocalDatabaseUri] = g.rel]
                      /\ sgm' = [sgm EXCEPT ![LocalDatabaseUri] = g.sgm]
                      /\ opt' = Called("merge_entity", TRUE, TRUE, ids)
                 ELSE /\ UNCHANGED << ent, rel, sgm >>
                      /\ opt' = Called("merge_entity", FALSE, FALSE, ids)
    /\ UNCHANGED << up, ingestVars, gbs, clock, bp, pc, run, uploadVars, par, db >>

\* A relationship id that no row has.
GoneRelationship ==
    [src |-> GoneEntity, tgt |-> GoneEntity, desc |-> "gone", n |-> 0]

\* The endpoints of the merged relationship: those of the first original,
\* turned round when the LLM names the first original's target as source.
MergedEndpoints(first, named) ==
    LET actual_source == IF named \in {first.src, first.tgt} THEN named ELSE first.src
        actual_target == IF actual_source = first.tgt THEN first.src ELSE first.tgt
    IN [src |-> actual_source, tgt |-> actual_target]

\* merge_relationship: the relationship the LLM proposes, as the row that
\* relationship_model(...) and session.flush() make of it.
MergedRelationship(first, named, stamp) ==
    LET ends == MergedEndpoints(first, named)
    IN [id |-> [src |-> ends.src, tgt |-> ends.tgt, desc |-> "merged", n |-> stamp],
        src |-> ends.src, tgt |-> ends.tgt, desc |-> "merged",
        attrs |-> first.attrs]

\* The transaction of process_redundancy_relationship_issue with the
\* mappings left as they are (step 1 left out).
ProcessRedundancyRelationshipIssueWithoutMappings(R, M, found, merged) ==
    [rel |-> (R \cup {merged}) \ found, sgm |-> M]

\* The transaction of process_redundancy_relationship_issue: the merged
\* relationship is added, the relationship mappings that point at an
\* original are pointed at it, and the originals are deleted.
ProcessRedundancyRelationshipIssue(R, M, found, merged) ==
    [rel |-> (R \cup {merged}) \ found,
     sgm |-> { IF m.type = "relationship" /\ m.elem \in { r.id : r \in found }
                 THEN [m EXCEPT !.elem = merged.id] ELSE m : m \in M }]

\* process_redundancy_relationship_issue(row_issue): fewer than two found
\* relationships, or relationships over more than two entities, are skipped
\* with True; an invalid answer returns False; an exception (a missing
\* "source_entity_id" in the answer among them) is rolled back, False. The
\* first of the relationships found and the endpoint ids of the LLM's answer
\* are kept with the call.
MergeRelationship ==
    /\ opt.merges < MaxMerges
    /\ \E ids \in SUBSET ({ r.id : r \in rel[LocalDatabaseUri] } \cup {GoneRelationship}) :
       \E outcome \in {"merged", "invalid", "raised"} :
         LET found == { r \in rel[LocalDatabaseUri] : r.id \in ids }
             entity_pairs == { r.src : r \in found } \cup { r.tgt : r \in found }
         IN /\ ids # {}
            /\ IF Cardinality(found) < 2 \/ Cardinality(entity_pairs) \notin {1, 2}
                 THEN /\ outcome # "invalid"
                      /\ UNCHANGED << rel, sgm >>
                      /\ opt' = Called("merge_relationship", outcome = "merged",
                                       FALSE, ids)
                 ELSE IF outcome = "merged"
                 THEN \E first \in found :
                      \E named, target \in entity_pairs \cup {GoneEntity} :
                        LET g == ProcessRedundancyRelationshipIssue(
                                     rel[LocalDatabaseUri], sgm[LocalDatabaseUri], found,
                                     MergedRelationship(first, named, opt.merges))
                        IN /\ rel' = [rel EXCEPT ![LocalDatabaseUri] = g.rel]
                           /\ sgm' = [sgm EXCEPT ![LocalDatabaseUri] = g.sgm]
                           /\ opt' = [Called("merge_relationship", TRUE, TRUE, ids)
                                       EXCEPT !.last =
                                         [op |-> "merge_relationship", ok |-> TRUE,
                                          committed |-> TRUE, ids |-> ids,
                                          first |-> first,
                                          source_entity_id |-> named,
                                          target_entity_id |-> target]]
                 ELSE /\ UNCHANGED << rel, sgm >>
                      /\ opt' = Called("merge_relationship", FALSE, FALSE, ids)
    /\ UNCHANGED << up, ingestVars, gbs, clock, bp, ent, pc, run, uploadVars, par, db >>

\* What refine_relationship_quality's LLM can return for a relationship: a
\* relationship_desc, the one of another relationship or a new one, and
\* attributes, which may be missing, or may lack or hold topic_name and
\* category ("none" stands for a key that is not there).
RefinedRelationships ==
    { [relationship_desc |-> d, given |-> a[1], topic_name |-> a[2], category |-> a[3]] :
        d \in {"r", "refined"},
        a \in { << FALSE, "none", "none" >>, << TRUE, "none", "none" >>,
                << TRUE, "b", "other" >> } }

\* The attributes process_relationship_quality_issue stores: the existing
\* ones when the LLM returned none, else the returned ones, with topic_name
\* and category taken from the existing ones where the returned ones lack
\* them.
RefinedRelationshipAttributes(existing, updated) ==
    IF ~updated.given THEN existing
    ELSE [topic_name |-> IF existing.topic_name # "none" /\ updated.topic_name = "none"
                           THEN existing.topic_name ELSE updated.topic_name,
          category |-> IF existing.category # "none" /\ updated.category = "none"
                         THEN existing.category ELSE updated.category]

\* process_relationship_quality_issue(row_issue): every affected
\* relationship is refined by the LLM and rewritten in place; the updates
\* are committed together. A relationship that is not found, an invalid
\* answer or an exception ends the call with False and nothing written.
RefineRelationship ==
    /\ opt.merges < MaxMerges
    /\ \E ids \in SUBSET ({ r.id : r \in rel[LocalDatabaseUri] } \cup {GoneRelationship}) :
       \E outcome \in {"refined", "invalid", "raised"} :
         LET found == { r \in rel[LocalDatabaseUri] : r.id \in ids }
         IN /\ Cardinality(ids) \in 1..2
            /\ IF outcome = "refined" /\ { r.id : r \in found } = ids
                 THEN \E updated \in [ids -> RefinedRelationships] :
                        /\ rel' = [rel EXCEPT ![LocalDatabaseUri] =
                              { IF r \in found
                                  THEN [r EXCEPT
                                          !.desc = updated[r.id].relationship_desc,
                                          !.attrs = RefinedRelationshipAttributes(
                                                        r.attrs, updated[r.id])]
                                  ELSE r : r \in @ }]
                        /\ opt' = Called("refine_relationship", TRUE, TRUE, ids)
                 ELSE /\ UNCHANGED rel
                      /\ opt' = Called("refine_relationship", FALSE, FALSE, ids)
    /\ UNCHANGED << up, ingestVars, gbs, clock, bp, ent, sgm, pc, run, uploadVars, par, db >>

\* ---------------- knowledge_graph/graph.py: reasoning enhancement
\* convert_reasoning_results_to_graph(reasoning_results, source_id) on the
\* local store: the transactions of the first `done` enhanced relationships
\* commit; when one fails the call ends with RuntimeError and the later ones
\* are not processed.
ConvertReasoningResults ==
    /\ opt.merges < MaxMerges
    /\ \E source \in sources[LocalDatabaseUri] :
       \E results \in UNION { [1..n -> EnhancedRelationships] : n \in 1..MaxResults } :
       \E done \in 0..Len(results) :
         LET g == ConvertReasoningResultsToGraph(
                      ent[LocalDatabaseUri], rel[LocalDatabaseUri],
                      sgm[LocalDatabaseUri], {}, SubSeq(results, 1, done),
                      "a", source.id)
         IN /\ ent' = [ent EXCEPT ![LocalDatabaseUri] = g.ent]
            /\ rel' = [rel EXCEPT ![LocalDatabaseUri] = g.rel]
            /\ sgm' = [sgm EXCEPT ![LocalDatabaseUri] = g.sgm]
            /\ opt' = [Called("convert_reasoning_results", done = Len(results),
                              done > 0, {})
                       EXCEPT !.last = [op |-> "convert_reasoning_results",
                                        ok |-> done = Len(results),
                                        committed |-> done > 0, ids |-> {},
                                        source_id |-> source.id,
                                        results |-> results]]
    /\ UNCHANGED << up, ingestVars, gbs, clock, bp, pc, run, uploadVars, par, db >>

\* ------------------------------------------- graph_optimization_engine.py
\* ProcessingConfig.confidence_threshold (0.9), in tenths.
ConfidenceThreshold == 9

\* The validation scores the critics give, in tenths: below and at the
\* threshold.
Scores == {5, 9}

\* What the detector's LLM can report: an issue type and the affected ids in
\* the order the LLM wrote them.
IssueTypes == {"redundancy_entity", "redundancy_relationship"}
AffectedIds == { << 1, 2 >>, << 2, 1 >> }

\* sorted(ids)
RECURSIVE Sorted(_)
Sorted(ids) ==
    IF ids = << >> THEN << >>
    ELSE LET m == CHOOSE i \in 1..Len(ids) : \A j \in 1..Len(ids) : ids[i] <= ids[j]
         IN << ids[m] >> \o Sorted(SubSeq(ids, 1, m - 1) \o SubSeq(ids, m + 1, Len(ids)))

\* IssueKey.generate
IssueKey(issue) == << issue.issue_type, Sorted(issue.affected_ids) >>

\* Issue(issue_type, affected_ids, ...) as IssueDetector.detect_issues
\* builds it: not evaluated, not resolved.
NewIssue(issue_type, affected_ids) ==
    [issue_type |-> issue_type, affected_ids |-> affected_ids,
     critic_evaluations |-> 0, validation_score |-> 0, is_resolved |-> FALSE]

\* The lists detect_issues can return.
DetectedLists ==
    UNION { [1..n -> { NewIssue(t, ids) : t \in IssueTypes, ids \in AffectedIds }]
            : n \in 0..MaxDetected }

\* _should_detect_new_issues
ShouldDetectNewIssues(issues) ==
    \/ Len(issues) = 0
    \/ /\ { i \in DOMAIN issues : /\ ~issues[i].is_resolved
                                  /\ issues[i].validation_score >= ConfidenceThreshold } = {}
       /\ \A i \in DOMAIN issues : issues[i].critic_evaluations > 0

\* critic_clients.keys(), in the order of the dict.
Critics == << "critic1", "critic2" >>
CriticNames == { Critics[k] : k \in DOMAIN Critics }

\* _evaluate_issues: the critics evaluate until no issue is left without an
\* evaluation; scores[i] is the score they give to issue i and evaluated[i]
\* the number of critics whose evaluation of it was stored when the loop
\* ends.
EvaluateIssues(issues, scores, evaluated) ==
    [i \in DOMAIN issues |->
        IF issues[i].critic_evaluations = 0
          THEN [issues[i] EXCEPT !.critic_evaluations = evaluated[i],
                                 !.validation_score = scores[i]]
          ELSE issues[i]]

\* _process_issues without its test: every issue is marked resolved.
ProcessEveryIssue(issues) ==
    [i \in DOMAIN issues |-> [issues[i] EXCEPT !.is_resolved = TRUE]]

\* _process_issues: every unresolved issue at or above the threshold is
\* marked resolved.
ProcessIssues(issues) ==
    [i \in DOMAIN issues |->
        IF issues[i].validation_score >= ConfidenceThreshold /\ ~issues[i].is_resolved
          THEN [issues[i] EXCEPT !.is_resolved = TRUE]
          ELSE issues[i]]

\* issues.extend(new_issues)
Extend(issues, new_issues) == issues \o new_issues

\* optimize_graph: the state file is loaded, new issues are detected when
\* _should_detect_new_issues says so and appended, all issues are evaluated,
\* the validated ones are marked resolved, and the state file is saved. No
\* row of the graph is read for writing or written.
OptimizeGraph ==
    /\ opt.runs < MaxRuns
    /\ \E new_issues \in DetectedLists :
         LET detect == ShouldDetectNewIssues(opt.issues)
             issues == IF detect THEN Extend(opt.issues, new_issues) ELSE opt.issues
         IN /\ ~detect => new_issues = << >>
            /\ \E scores \in [DOMAIN issues -> Scores] :
               \E evaluated \in [DOMAIN issues -> 1..Len(Critics)] :
                 /\ \A i \in DOMAIN issues :
                      issues[i].critic_evaluations > 0
                        => /\ scores[i] = issues[i].validation_score
                           /\ evaluated[i] = issues[i].critic_evaluations
                 /\ opt' = [opt EXCEPT
                              !.issues = ProcessIssues(
                                             EvaluateIssues(issues, scores, evaluated)),
                              !.runs = @ + 1,
                              !.last = [op |-> "optimize_graph", ok |-> TRUE,
                                        committed |-> FALSE, ids |-> {}]]
    /\ UNCHANGED << up, ingestVars, gbs, clock, graphVars, pc, run, uploadVars, par, db >>

\* ---------------------------- graph_optimization_engine.py: IssueProcessor
\* What a call of a resolver can come to: it does its work and returns True,
\* it returns False on an invalid answer of the LLM, or an exception is
\* raised (in the resolver, which rolls back and returns False, or by the
\* call itself, which the processor logs).
Outcomes == {"done", "invalid", "raised"}

\* process_redundancy_entity_issue or process_redundancy_relationship_issue
\* on the graph rows G, for one issue of the processor; a failed call leaves
\* rows that it had flushed in the store.
ResolveIssueWithoutRollback(G, issue, outcome, stamp) ==
    IF issue.issue_type = "redundancy_entity" /\ G.ent \cap issue.affected_ids # {}
      THEN LET found == G.ent \cap issue.affected_ids
               merged == MergedEntity("M", (CHOOSE e \in found : TRUE).topic, stamp)
               g == ProcessRedundancyEntityIssue(G.ent, G.rel, G.sgm, found, merged)
           IN IF outcome = "done"
                THEN [ent |-> g.ent, rel |-> g.rel, sgm |-> g.sgm, ok |-> TRUE]
                ELSE [ent |-> G.ent \cup {merged}, rel |-> G.rel, sgm |-> G.sgm,
                      ok |-> FALSE]
      ELSE [ent |-> G.ent, rel |-> G.rel, sgm |-> G.sgm, ok |-> FALSE]

\* process_redundancy_entity_issue or process_redundancy_relationship_issue
\* on the graph rows G, for one issue of the processor: the rows after the
\* call and what the call returned (False for a call that raised).
ResolveIssue(G, issue, outcome, stamp) ==
    IF issue.issue_type = "redundancy_entity"
      THEN LET found == G.ent \cap issue.affected_ids
           IN IF found # {} /\ outcome = "done"
                THEN LET g == ProcessRedundancyEntityIssue(
                                  G.ent, G.rel, G.sgm, found,
                                  MergedEntity("M", (CHOOSE e \in found : TRUE).topic,
                                               stamp))
                     IN [ent |-> g.ent, rel |-> g.rel, sgm |-> g.sgm, ok |-> TRUE]
                ELSE [ent |-> G.ent, rel |-> G.rel, sgm |-> G.sgm, ok |-> FALSE]
      ELSE LET found == { r \in G.rel : r.id \in issue.affected_ids }
               entity_pairs == { r.src : r \in found } \cup { r.tgt : r \in found }
           IN IF Cardinality(found) < 2 \/ Cardinality(entity_pairs) \notin {1, 2}
                THEN [ent |-> G.ent, rel |-> G.rel, sgm |-> G.sgm,
                      ok |-> outcome # "raised"]
                ELSE IF outcome = "done"
                THEN LET first == CHOOSE r \in found : TRUE
                         g == ProcessRedundancyRelationshipIssue(
                                  G.rel, G.sgm, found,
                                  MergedRelationship(first, first.src, stamp))
                     IN [ent |-> G.ent, rel |-> g.rel, sgm |-> g.sgm, ok |-> TRUE]
                ELSE [ent |-> G.ent, rel |-> G.rel, sgm |-> G.sgm, ok |-> FALSE]

\* _process_issues_concurrently with max_concurrent_issues = 1: the pending
\* issues are taken one by one, each is handed to its resolver, and the key
\* of an issue whose resolver returned True is put into issue_cache. The
\* result holds the rows after the last issue and, for every issue, whether
\* it succeeded, whether one of its affected rows was not there when its
\* resolver ran, and whether its resolver changed a row.
RECURSIVE ProcessIssuesConcurrently(_, _, _, _)
ProcessIssuesConcurrently(G, pending_issues, outcomes, stamp) ==
    IF pending_issues = << >>
      THEN [ent |-> G.ent, rel |-> G.rel, sgm |-> G.sgm, results |-> << >>]
      ELSE LET n == Len(pending_issues)
               before == ProcessIssuesConcurrently(G, SubSeq(pending_issues, 1, n - 1),
                                                   outcomes, stamp)
               after == ResolveIssue(before, pending_issues[n], outcomes[n], stamp + n)
           IN [ent |-> after.ent, rel |-> after.rel, sgm |-> after.sgm,
               results |-> Append(before.results,
                   [issue_key |-> pending_issues[n].issue_key,
                    success |-> after.ok,
                    missing |-> IF pending_issues[n].issue_type = "redundancy_entity"
                                  THEN ~(pending_issues[n].affected_ids \subseteq before.ent)
                                  ELSE ~(pending_issues[n].affected_ids
                                           \subseteq { r.id : r \in before.rel }),
                    changed |-> << after.ent, after.rel, after.sgm >>
                                  # << before.ent, before.rel, before.sgm >>])]

\* The issues of one type that a run hands to the processor: the rows of the
\* issue data frame whose key is not in issue_cache.
PendingIssues(issue_type) ==
    SelectSeq(opt.df, LAMBDA row : /\ row.issue_type = issue_type
                                   /\ row.issue_key \notin opt.cache)

\* IssueProcessor.process_issues_by_type for the two redundancy types: the
\* pending issues of the type are processed and the data frame is written
\* to the state file as it is.
ProcessIssuesByType ==
    /\ opt.runs < MaxRuns
    /\ \E issue_type \in IssueTypes :
         LET pending_issues == PendingIssues(issue_type)
         IN /\ pending_issues # << >>
            /\ \E outcomes \in [DOMAIN pending_issues -> Outcomes] :
                 LET g == ProcessIssuesConcurrently(
                              [ent |-> ent[LocalDatabaseUri], rel |-> rel[LocalDatabaseUri],
                               sgm |-> sgm[LocalDatabaseUri]],
                              pending_issues, outcomes, opt.merges)
                 IN /\ ent' = [ent EXCEPT ![LocalDatabaseUri] = g.ent]
                    /\ rel' = [rel EXCEPT ![LocalDatabaseUri] = g.rel]
                    /\ sgm' = [sgm EXCEPT ![LocalDatabaseUri] = g.sgm]
                    /\ opt' = [opt EXCEPT
                                 !.cache = @ \cup { g.results[k].issue_key :
                                                      k \in { j \in DOMAIN g.results :
                                                                g.results[j].success } },
                                 !.runs = @ + 1,
                                 !.merges = @ + Len(pending_issues),
                                 !.last = [op |-> "process_issues_by_type", ok |-> TRUE,
                                           committed |-> TRUE, ids |-> {},
                                           results |-> g.results]]
    /\ UNCHANGED << up, ingestVars, gbs, clock, bp, pc, run, uploadVars, par, db >>

\* ------------- graph_optimization_engine.py: IssueProcessor, step by step
\* keys_for_batch with the slice left out: every pending key.
EveryKey(pending_issues) == pending_issues

\* keys_for_batch: the first max_concurrent_issues keys of pending_issues.
KeysForBatch(pending_issues) ==
    SubSeq(pending_issues, 1,
           IF Len(pending_issues) < max_concurrent_issues
             THEN Len(pending_issues) ELSE max_concurrent_issues)

\* process_issues_by_type is called with the pending issues of one type;
\* _process_issues_concurrently is at the top of its loop.
ProcessBegin ==
    /\ opt.proc.phase = "idle"
    /\ opt.runs < MaxRuns
    /\ \E issue_type \in IssueTypes :
         /\ PendingIssues(issue_type) # << >>
         /\ opt' = [opt EXCEPT
                      !.runs = @ + 1,
                      !.proc = [phase |-> "top",
                                keys |-> { PendingIssues(issue_type)[i].issue_key :
                                             i \in DOMAIN PendingIssues(issue_type) },
                                pending |-> [i \in DOMAIN PendingIssues(issue_type) |->
                                               PendingIssues(issue_type)[i].issue_key],
                                running |-> {},
                                handed |-> [i \in DOMAIN opt.df |-> 0],
                                batches |-> 0, saved |-> 0],
                      !.last = [op |-> "process_begin", ok |-> TRUE,
                                committed |-> FALSE, ids |-> {}]]
    /\ UNCHANGED << up, ingestVars, gbs, clock, graphVars, pc, run, uploadVars, par, db >>

\* The top of the loop with issues pending: the keys of the batch are popped
\* and every issue of the batch is submitted to a pool of len(batch_issues)
\* workers.
StartBatch ==
    /\ opt.proc.phase = "top"
    /\ opt.proc.pending # << >>
    /\ LET keys_for_batch == KeysForBatch(opt.proc.pending)
           batch == { keys_for_batch[i] : i \in DOMAIN keys_for_batch }
       IN opt' = [opt EXCEPT
                    !.proc.phase = "wait",
                    !.proc.pending = SubSeq(@, Len(keys_for_batch) + 1, Len(@)),
                    !.proc.running = batch,
                    !.proc.handed = [k \in DOMAIN @ |->
                                       IF k \in batch THEN @[k] + 1 ELSE @[k]],
                    !.proc.batches = @ + 1,
                    !.last = [op |-> "start_batch", ok |-> TRUE,
                              committed |-> FALSE, ids |-> batch]]
    /\ UNCHANGED << up, ingestVars, gbs, clock, graphVars, pc, run, uploadVars, par, db >>

\* One resolver of the batch ends its transaction and its future completes:
\* the key of a successful one is put into issue_cache.
ResolverDone ==
    /\ opt.proc.phase = "wait"
    /\ \E key \in opt.proc.running :
       \E outcome \in Outcomes :
         LET g == ResolveIssue([ent |-> ent[LocalDatabaseUri],
                                rel |-> rel[LocalDatabaseUri],
                                sgm |-> sgm[LocalDatabaseUri]],
                               opt.df[key], outcome, opt.merges)
         IN /\ ent' = [ent EXCEPT ![LocalDatabaseUri] = g.ent]
            /\ rel' = [rel EXCEPT ![LocalDatabaseUri] = g.rel]
            /\ sgm' = [sgm EXCEPT ![LocalDatabaseUri] = g.sgm]
            /\ opt' = [opt EXCEPT
                         !.merges = @ + 1,
                         !.cache = IF g.ok THEN @ \cup {key} ELSE @,
                         !.proc.running = @ \ {key},
                         !.last = [op |-> "resolver_done", ok |-> g.ok,
                                   committed |-> g.ok, ids |-> {key}]]
    /\ UNCHANGED << up, ingestVars, gbs, clock, bp, pc, run, uploadVars, par, db >>

\* The pool is left when every future of the batch has completed, and
\* issue_df.to_pickle(state_file) saves the state; back to the top.
SaveState ==
    /\ opt.proc.phase = "wait"
    /\ opt.proc.running = {}
    /\ opt' = [opt EXCEPT !.proc.phase = "top",
                          !.proc.saved = @ + 1,
                          !.last = [op |-> "save_state", ok |-> TRUE,
                                    committed |-> FALSE, ids |-> {}]]
    /\ UNCHANGED << up, ingestVars, gbs, clock, graphVars, pc, run, uploadVars, par, db >>

\* The top of the loop with nothing pending: issue_cache is returned.
ProcessReturn ==
    /\ opt.proc.phase = "top"
    /\ opt.proc.pending = << >>
    /\ opt' = [opt EXCEPT !.proc.phase = "idle",
                          !.last = [op |-> "process_return", ok |-> TRUE,
                                    committed |-> FALSE, ids |-> {}]]
    /\ UNCHANGED << up, ingestVars, gbs, clock, graphVars, pc, run, uploadVars, par, db >>

\* ------------------------------------------------------ opt/evaluator.py
\* What critic_client.generate can give for one issue: a JSON object with
\* is_valid true, one with is_valid false, one without is_valid, text that
\* is no JSON object; or it raises.
Responses == {"valid", "invalid", "nokey", "garbage"}
Answers == Responses \cup {"raised"}

\* robust_json_parse(response, "object") returns an object (it raises
\* otherwise).
Parses(response) == response \in {"valid", "invalid", "nokey"}

\* A row of the issue data frame as it is before any critic has seen it:
\* confidence in tenths, one column per critic.
NewRow(issue_type) ==
    [issue_type |-> issue_type, confidence |-> 0,
     critic |-> [c \in CriticNames |-> "none"]]

\* Whether evaluate_issue passes over the row: the critic's column holds a
\* response that parses.
Skipped(row, c) == row.critic[c] # "none" /\ Parses(row.critic[c])

\* One round of the loop of evaluate_issue with the test of the critic's
\* column left out.
EvaluateRowAgain(row, c, answer) ==
    IF answer \in {"valid", "invalid"}
      THEN [row EXCEPT !.confidence = IF answer = "valid" THEN @ + 9 ELSE @,
                       !.critic[c] = answer]
      ELSE row

\* One round of the loop of evaluate_issue: a row that holds a parsable
\* response of this critic is passed over; generate raising, a response
\* that does not parse and one without is_valid leave the row as it is;
\* otherwise 0.9 is added when is_valid is true and the response is stored.
EvaluateRow(row, c, answer) ==
    IF Skipped(row, c) THEN row
    ELSE IF answer \in {"valid", "invalid"}
      THEN [row EXCEPT !.confidence = IF answer = "valid" THEN @ + 9 ELSE @,
                       !.critic[c] = answer]
      ELSE row

\* evaluate_issue(critic_name, critic_client, issue_df)
EvaluateIssue(c, df, answers) ==
    [i \in DOMAIN df |-> EvaluateRow(df[i], c, answers[i])]

\* The data frame after the critics 1..k had their pass.
RECURSIVE AfterCritics(_, _, _)
AfterCritics(df, k, answers) ==
    IF k = 0 THEN df
    ELSE EvaluateIssue(Critics[k], AfterCritics(df, k - 1, answers), answers[Critics[k]])

\* The (row, critic) pairs that a batch over df passes over.
SkippedPairs(df, k, answers) ==
    { << i, j >> \in (DOMAIN df) \X (1..k) :
         Skipped(AfterCritics(df, j - 1, answers)[i], Critics[j]) }

\* batch_evaluate_issues: the pickle is read, every critic has its pass and
\* the pickle is written after each pass. The process may be killed between
\* two passes, the pickle then holds the passes that were finished.
BatchEvaluateIssues ==
    /\ opt.runs < MaxRuns
    /\ \E answers \in [CriticNames -> [DOMAIN opt.df -> Answers]] :
       \E k \in 1..Len(Critics) :
         \* a critic whose response is stored would give it again
         /\ \A c \in CriticNames : \A i \in DOMAIN opt.df :
              Skipped(opt.df[i], c) => answers[c][i] = opt.df[i].critic[c]
         /\ opt' = [opt EXCEPT
                      !.df = AfterCritics(opt.df, k, answers),
                      !.runs = @ + 1,
                      !.last = [op |-> "batch_evaluate_issues", ok |-> k = Len(Critics),
                                committed |-> TRUE,
                                ids |-> SkippedPairs(opt.df, k, answers)]]
    /\ UNCHANGED << up, ingestVars, gbs, clock, graphVars, pc, run, uploadVars, par, db >>

\* -------------------------------------------------------- specifications
Names == {f.name : f \in UploadFiles}

Init ==
    /\ up = [t \in Tenants |-> TRUE]
    /\ disk = [k \in Topics \X Names |-> "none"]
    /\ content = [st \in Stores |-> {}]
    /\ sources = [st \in Stores |-> {}]
    /\ gbs = [st \in Stores |-> {}]
    /\ clock = 0
    /\ bp = [st \in Stores |-> [t \in Topics |-> 0]]
    /\ ent = [st \in Stores |-> {}]
    /\ rel = [st \in Stores |-> {}]
    /\ sgm = [st \in Stores |-> {}]
    /\ pc = "idle"
    /\ run = NoRun
    /\ req = NoReq
    /\ nreq = 0
    /\ resp = NoResponse
    /\ par = [p \in Procs |-> NoIngest]
    /\ db = NoDb
    /\ opt = NoOpt

\* The scheduler, the uploads it is run on, tenant stores that come and go,
\* and the scheduler process being killed.
Next ==
    \/ UploadBegin(BuildRequests)
    \/ UploadFileFailed
    \/ UploadFileProcessed
    \/ TenantFlip
    \/ Prepare
    \/ FetchRaises
    \/ Fetch
    \/ StartBuild
    \/ ExtractDocument
    \/ ConvertTriplet
    \/ BuildRaises
    \/ Final
    \/ Crash

Spec == Init /\ [][Next]_vars

\* The accepted requests of the local tenant.
RetryRequests == { r \in BuildRequests : r.uri = NoUri }

\* The scheduler on the local store when a triplet's transaction can fail,
\* by a lost connection or otherwise.
NextRetry ==
    \/ UploadBegin(RetryRequests)
    \/ UploadFileProcessed
    \/ Prepare
    \/ Fetch
    \/ StartBuild
    \/ ExtractDocument
    \/ ConvertTriplet
    \/ ConvertTripletRetried
    \/ ConvertTripletRaises
    \/ BuildRaises
    \/ Final
    \/ Crash

SpecRetry == Init /\ [][NextRetry]_vars

\* The upload endpoint alone, on every request within the bounds.
NextUpload ==
    \/ UploadBegin(AllRequests)
    \/ UploadFileInvalid
    \/ UploadFileFailed
    \/ UploadFileProcessed
    \/ UploadFileMirrorFailed
    \/ TenantFlip

SpecUpload == Init /\ [][NextUpload]_vars

\* Requests that ingest in parallel, in any interleaving.
NextParallel ==
    \/ \E p \in Procs : IngestLookup(p)
    \/ \E p \in Procs : IngestCommit(p)
    \/ \E p \in Procs : IngestReturn(p)

SpecParallel == Init /\ [][NextParallel]_vars

\* One step of the scheduler's loop: start() calls _process_pending_tasks
\* again and again, and every call it makes returns or raises.
Scheduler ==
    \/ Prepare
    \/ FetchRaises
    \/ Fetch
    \/ StartBuild
    \/ ExtractDocument
    \/ ConvertTriplet
    \/ BuildRaises
    \/ Final

\* The scheduler keeps polling (it is not killed) while tenant stores come
\* and go.
NextFair ==
    \/ UploadBegin(BuildRequests)
    \/ UploadFileFailed
    \/ UploadFileProcessed
    \/ TenantFlip
    \/ Scheduler

SpecFair == Init /\ [][NextFair]_vars /\ WF_vars(Scheduler)

\* The scheduler keeps polling and every store stays reachable.
SchedulerLive ==
    \/ Prepare
    \/ Fetch
    \/ StartBuild
    \/ ExtractDocument
    \/ ConvertTriplet
    \/ BuildRaises
    \/ Final

NextLive ==
    \/ UploadBegin(BuildRequests)
    \/ UploadFileProcessed
    \/ SchedulerLive

SpecLive == Init /\ [][NextLive]_vars /\ WF_vars(SchedulerLive)

\* The graphs the optimizer starts from: what Build leaves in the local store
\* for two documents with up to two triplets and up to one.
RECURSIVE OptGraph(_, _)
OptGraph(G, docs) ==
    IF docs = << >> THEN G
    ELSE LET r == ConvertTripletsToGraph(G.ent, G.rel, G.sgm, {},
                                         Head(docs).triplets, "a", Head(docs).sid)
         IN OptGraph([ent |-> r.ent, rel |-> r.rel, sgm |-> r.sgm], Tail(docs))

InitOptimize ==
    /\ up = [t \in Tenants |-> TRUE]
    /\ disk = [k \in Topics \X Names |-> "none"]
    /\ content = [st \in Stores |->
                     IF st = LocalDatabaseUri
                       THEN { [hash |-> Sha256("c1"), link |-> "l1"],
                              [hash |-> Sha256("c2"), link |-> "l2"] }
                       ELSE {}]
    /\ sources = [st \in Stores |->
                     IF st = LocalDatabaseUri
                       THEN { [id |-> << LocalDatabaseUri, "l1", 0 >>, link |-> "l1",
                               hash |-> Sha256("c1")],
                              [id |-> << LocalDatabaseUri, "l2", 0 >>, link |-> "l2",
                               hash |-> Sha256("c2")] }
                       ELSE {}]
    /\ gbs = [st \in Stores |-> {}]
    /\ clock = 0
    /\ bp = [st \in Stores |-> [t \in Topics |-> 0]]
    /\ \E first \in UNION { [1..n -> OptTriplets] : n \in 1..2 } :
       \E second \in UNION { [1..n -> OptTriplets] : n \in 0..1 } :
         LET g == OptGraph([ent |-> {}, rel |-> {}, sgm |-> {}],
                           << [sid |-> << LocalDatabaseUri, "l1", 0 >>,
                               triplets |-> first],
                              [sid |-> << LocalDatabaseUri, "l2", 0 >>,
                               triplets |-> second] >>)
         IN /\ ent = [st \in Stores |-> IF st = LocalDatabaseUri THEN g.ent ELSE {}]
            /\ rel = [st \in Stores |-> IF st = LocalDatabaseUri THEN g.rel ELSE {}]
            /\ sgm = [st \in Stores |-> IF st = LocalDatabaseUri THEN g.sgm ELSE {}]
    /\ pc = "idle"
    /\ run = NoRun
    /\ req = NoReq
    /\ nreq = 0
    /\ resp = NoResponse
    /\ par = [p \in Procs |-> NoIngest]
    /\ db = NoDb
    /\ opt = NoOpt

\* The optimizer's resolvers, called on the local store.
NextOptimize ==
    \/ MergeEntity
    \/ MergeRelationship
    \/ RefineRelationship

SpecOptimize == InitOptimize /\ [][NextOptimize]_vars

\* The optimizer engine, run again and again on a graph nobody changes.
NextEngine ==
    \/ OptimizeGraph

SpecEngine == InitOptimize /\ [][NextEngine]_vars

\* The critics, run again and again over a pickle of detected issues.
InitEvaluate ==
    /\ up = [t \in Tenants |-> TRUE]
    /\ disk = [k \in Topics \X Names |-> "none"]
    /\ content = [st \in Stores |-> {}]
    /\ sources = [st \in Stores |-> {}]
    /\ gbs = [st \in Stores |-> {}]
    /\ clock = 0
    /\ bp = [st \in Stores |-> [t \in Topics |-> 0]]
    /\ ent = [st \in Stores |-> {}]
    /\ rel = [st \in Stores |-> {}]
    /\ sgm = [st \in Stores |-> {}]
    /\ pc = "idle"
    /\ run = NoRun
    /\ req = NoReq
    /\ nreq = 0
    /\ resp = NoResponse
    /\ par = [p \in Procs |-> NoIngest]
    /\ db = NoDb
    /\ \E df \in UNION { [1..n -> { NewRow(t) : t \in IssueTypes }] : n \in 1..MaxRows } :
         opt = [NoOpt EXCEPT !.df = df]

NextEvaluate ==
    \/ BatchEvaluateIssues

SpecEvaluate == InitEvaluate /\ [][NextEvaluate]_vars

\* The issues a detection can have stored for a graph: the merge of two
\* entities or of two relationships, under the keys 1 and 2.
IssueRows(E, R) ==
    LET candidates ==
            { [issue_type |-> "redundancy_entity", affected_ids |-> ids] :
                 ids \in { x \in SUBSET E : Cardinality(x) = 2 } }
            \cup
            { [issue_type |-> "redundancy_relationship", affected_ids |-> ids] :
                 ids \in { x \in SUBSET { r.id : r \in R } : Cardinality(x) = 2 } }
    IN { df \in UNION { [1..n -> candidates] : n \in 1..MaxRows } :
            \A i, j \in DOMAIN df : i < j => df[i] # df[j] }

\* The processor, run again and again on a graph and the issues stored for
\* it.
InitProcessor ==
    /\ up = [t \in Tenants |-> TRUE]
    /\ disk = [k \in Topics \X Names |-> "none"]
    /\ content = [st \in Stores |->
                     IF st = LocalDatabaseUri
                       THEN { [hash |-> Sha256("c1"), link |-> "l1"],
                              [hash |-> Sha256("c2"), link |-> "l2"] }
                       ELSE {}]
    /\ sources = [st \in Stores |->
                     IF st = LocalDatabaseUri
                       THEN { [id |-> << LocalDatabaseUri, "l1", 0 >>, link |-> "l1",
                               hash |-> Sha256("c1")],
                              [id |-> << LocalDatabaseUri, "l2", 0 >>, link |-> "l2",
                               hash |-> Sha256("c2")] }
                       ELSE {}]
    /\ gbs = [st \in Stores |-> {}]
    /\ clock = 0
    /\ bp = [st \in Stores |-> [t \in Topics |-> 0]]
    /\ \E first \in UNION { [1..n -> OptTriplets] : n \in 1..2 } :
       \E second \in UNION { [1..n -> OptTriplets] : n \in 0..1 } :
         LET g == OptGraph([ent |-> {}, rel |-> {}, sgm |-> {}],
                           << [sid |-> << LocalDatabaseUri, "l1", 0 >>,
                               triplets |-> first],
                              [sid |-> << LocalDatabaseUri, "l2", 0 >>,
                               triplets |-> second] >>)
         IN /\ ent = [st \in Stores |-> IF st = LocalDatabaseUri THEN g.ent ELSE {}]
            /\ rel = [st \in Stores |-> IF st = LocalDatabaseUri THEN g.rel ELSE {}]
            /\ sgm = [st \in Stores |-> IF st = LocalDatabaseUri THEN g.sgm ELSE {}]
            /\ \E df \in IssueRows(g.ent, g.rel) :
                 opt = [NoOpt EXCEPT
                          !.df = [i \in DOMAIN df |->
                                    [issue_key |-> i, issue_type |-> df[i].issue_type,
                                     affected_ids |-> df[i].affected_ids]]]
    /\ pc = "idle"
    /\ run = NoRun
    /\ req = NoReq
    /\ nreq = 0
    /\ resp = NoResponse
    /\ par = [p \in Procs |-> NoIngest]
    /\ db = NoDb

NextProcessor ==
    \/ ProcessIssuesByType

SpecProcessor == InitProcessor /\ [][NextProcessor]_vars

\* The processor step by step, on the graph of (A r B), (A2 r B), (A r2 B)
\* and MaxIssues stored issues.
InitBatches ==
    /\ up = [t \in Tenants |-> TRUE]
    /\ disk = [k \in Topics \X Names |-> "none"]
    /\ content = [st \in Stores |->
                     IF st = LocalDatabaseUri
                       THEN { [hash |-> Sha256("c1"), link |-> "l1"] } ELSE {}]
    /\ sources = [st \in Stores |->
                     IF st = LocalDatabaseUri
                       THEN { [id |-> << LocalDatabaseUri, "l1", 0 >>, link |-> "l1",
                               hash |-> Sha256("c1")] }
                       ELSE {}]
    /\ gbs = [st \in Stores |-> {}]
    /\ clock = 0
    /\ bp = [st \in Stores |-> [t \in Topics |-> 0]]
    /\ LET g == OptGraph([ent |-> {}, rel |-> {}, sgm |-> {}],
                         << [sid |-> << LocalDatabaseUri, "l1", 0 >>,
                             triplets |-> << [s |-> "A", p |-> "r", o |-> "B"],
                                             [s |-> "A2", p |-> "r", o |-> "B"],
                                             [s |-> "A", p |-> "r2", o |-> "B"] >>] >>)
           candidates ==
               { [issue_type |-> "redundancy_entity", affected_ids |-> ids] :
                    ids \in { x \in SUBSET g.ent : Cardinality(x) = 2 } }
               \cup
               { [issue_type |-> "redundancy_relationship", affected_ids |-> ids] :
                    ids \in { x \in SUBSET { r.id : r \in g.rel } : Cardinality(x) = 2 } }
       IN /\ ent = [st \in Stores |-> IF st = LocalDatabaseUri THEN g.ent ELSE {}]
          /\ rel = [st \in Stores |-> IF st = LocalDatabaseUri THEN g.rel ELSE {}]
          /\ sgm = [st \in Stores |-> IF st = LocalDatabaseUri THEN g.sgm ELSE {}]
          /\ \E df \in [1..MaxIssues -> candidates] :
               /\ \A i, j \in DOMAIN df : i < j => df[i] # df[j]
               /\ opt = [NoOpt EXCEPT
                           !.df = [i \in DOMAIN df |->
                                     [issue_key |-> i, issue_type |-> df[i].issue_type,
                                      affected_ids |-> df[i].affected_ids]]]
    /\ pc = "idle"
    /\ run = NoRun
    /\ req = NoReq
    /\ nreq = 0
    /\ resp = NoResponse
    /\ par = [p \in Procs |-> NoIngest]
    /\ db = NoDb

NextBatches ==
    \/ ProcessBegin
    \/ StartBatch
    \/ ResolverDone
    \/ SaveState
    \/ ProcessReturn

SpecBatches == InitBatches /\ [][NextBatches]_vars

\* Two threads of one process ask db_manager for session factories; the
\* tenant store can or cannot be opened.
InitDb ==
    /\ up \in [Tenants -> BOOLEAN]
    /\ disk = [k \in Topics \X Names |-> "none"]
    /\ content = [st \in Stores |-> {}]
    /\ sources = [st \in Stores |-> {}]
    /\ gbs = [st \in Stores |-> {}]
    /\ clock = 0
    /\ bp = [st \in Stores |-> [t \in Topics |-> 0]]
    /\ ent = [st \in Stores |-> {}]
    /\ rel = [st \in Stores |-> {}]
    /\ sgm = [st \in Stores |-> {}]
    /\ pc = "idle"
    /\ run = NoRun
    /\ req = NoReq
    /\ nreq = 0
    /\ resp = NoResponse
    /\ par = [p \in Procs |-> NoIngest]
    /\ opt = NoOpt
    /\ db = NoDb

NextDb ==
    \/ \E p \in Threads : GetSessionFactory(p)
    \/ \E p \in Threads : CreateConnection(p)
    \/ \E p \in Threads : ReturnConnection(p)

SpecDb == InitDb /\ [][NextDb]_vars

\* Reasoning enhancement and entity merges on a graph that triplets have
\* built.
NextReasoning ==
    \/ ConvertReasoningResults
    \/ MergeEntity

SpecReasoning == InitOptimize /\ [][NextReasoning]_vars

\* ------------------------------------------------------------- properties
Terminal == {"completed", "failed"}

SameRow(r, q) == r.topic = q.topic /\ r.sid = q.sid /\ r.uri = q.uri

\* The rows of the job in progress, in the local store and in its tenant's.
JobRows(rows, uri) ==
    {r \in rows : r.topic = run.topic /\ r.sid \in run.sids /\ r.uri = uri}

\* The status changes a step makes in store st.
StatusChanges(st) ==
    { << c[1].status, c[2].status >> :
        c \in {x \in gbs[st] \X gbs'[st] :
                  SameRow(x[1], x[2]) /\ x[1].status # x[2].status} }

\* C1 (as amended): in the local store a row's status changes only along
\* pending -> processing -> completed or failed; in a tenant store the
\* scheduler never sets processing, and a row is set to completed or failed
\* directly from pending.
C1_StatusEdges ==
    [][ /\ StatusChanges(LocalDatabaseUri) \subseteq
             { << "pending", "processing" >>, << "processing", "completed" >>,
               << "processing", "failed" >> }
        /\ \A t \in Tenants :
             StatusChanges(t) \subseteq
               { << "pending", "completed" >>, << "pending", "failed" >> } ]_vars

\* C1 case: a tenant row and its local mirror have both reached completed.
C1_Witness ==
    \E t \in Tenants : \E r \in gbs[t] : \E l \in gbs[LocalDatabaseUri] :
        /\ r.status = "completed"
        /\ l.status = "completed" /\ l.uri = t /\ l.sid = r.sid /\ l.topic = r.topic

\* C1 as stated: in every store a row is set to completed or failed only when
\* its status in that store is processing.
C1_TerminalOnlyFromProcessing ==
    [][ \A st \in Stores : \A c \in StatusChanges(st) :
            c[2] \in Terminal => c[1] = "processing" ]_vars

\* C2: with the scheduler polling, every store reachable and every Build
\* call returning or raising, a row that is pending in the local store is
\* eventually completed or failed.
C2_PendingEventuallyTerminal ==
    \A topic \in Topics : \A uri \in {""} \cup Tenants :
      \A st \in Stores : \A link \in Links :
        LET Row(status) ==
              \E r \in gbs[LocalDatabaseUri] :
                 /\ r.topic = topic /\ r.uri = uri /\ r.sid = << st, link, 0 >>
                 /\ r.status \in status
        IN Row({"pending"}) ~> Row(Terminal)

\* C2 case: the scheduler has drained: no job is in progress, no local row is
\* outstanding, and a row has been completed.
C2_Witness ==
    /\ pc = "idle"
    /\ \A r \in gbs[LocalDatabaseUri] : r.status \in Terminal
    /\ \E r \in gbs[LocalDatabaseUri] : r.status = "completed"

\* C3: when the scheduler finishes a job of a non-local tenant, every source
\* of the job has the same terminal status, with the same error text, in its
\* local mirror row and in its tenant row.
C3_BothStoresAgree ==
    [][ ( /\ pc # "idle" /\ pc' = "idle"
          /\ ~IsLocalMode(run.uri)
          /\ \A l \in JobRows(gbs'[LocalDatabaseUri], run.uri) : l.status \in Terminal )
        => \A l \in JobRows(gbs'[LocalDatabaseUri], run.uri) :
             \E t \in JobRows(gbs'[run.uri], "") :
                t.sid = l.sid /\ t.status = l.status /\ t.err = l.err ]_vars

\* The relationships of store st that stand for triplet t in a topic.
RelationshipsOf(st, topic, t) ==
    {x \in rel[st] : /\ x.src.name = t.s /\ x.tgt.name = t.o /\ x.desc = t.p
                     /\ x.src.topic = topic /\ x.tgt.topic = topic}

\* C4: once a job is completed, restarts of the scheduler included, every
\* triplet extracted for each of its documents has its relationship in the
\* store exactly once.
C4_CompletedHasEveryTriplet ==
    \A l \in gbs[LocalDatabaseUri] :
       l.status = "completed" /\ SourceText(StoreOf(l.uri), l.sid) # ""
       => LET trip == LLMTriplets(SourceText(StoreOf(l.uri), l.sid))
          IN \A i \in 1..Len(trip) :
               Cardinality(RelationshipsOf(StoreOf(l.uri), l.topic, trip[i])) = 1

\* The row counts of the graph tables.
Counts(G) ==
    << G.bp, Cardinality(G.ent), Cardinality(G.rel), Cardinality(G.sgm) >>

\* The orders in which the documents of S can be taken.
Orders(S) ==
    {o \in [1..Cardinality(S) -> S] : \A i, j \in 1..Cardinality(S) :
                                         o[i] = o[j] => i = j}

C6_EarliestJobFirst ==
    [][ pc = "idle" /\ pc' = "fetch"
        => \E r \in gbs[LocalDatabaseUri] :
             /\ r.status \in {"pending", "processing"}
             /\ r.topic = run'.topic /\ r.uri = run'.uri
             /\ \A q \in gbs[LocalDatabaseUri] :
                  q.status \in {"pending", "processing"} => r.sched <= q.sched ]_vars

\* C6 case: a job has been started while another job holds an outstanding
\* row that was scheduled later.
C6_Witness ==
    /\ pc = "fetch"
    /\ \E r \in JobRows(gbs[LocalDatabaseUri], run.uri) :
         \E q \in gbs[LocalDatabaseUri] :
            /\ q.status = "pending"
            /\ q.topic # run.topic \/ q.uri # run.uri
            /\ q.sched > r.sched

\* The sources of the job in progress whose SourceData row has content.
WithContent(sids) ==
    {sid \in sids : \E s \in sources[StoreOf(run.uri)] :
                       s.id = sid /\ ExtractedContent(s.hash) # ""}

\* C7 (as amended): a job takes exactly the local rows of its (topic_name,
\* external_database_uri) that are pending or processing when it is selected
\* and flips them all to processing in one commit, before any source is
\* fetched; the sources among them that have content are handed to a single
\* Build call, and with none the job ends without a Build, its rows failed.
C7_JobBatch ==
    [][ /\ pc = "idle" /\ pc' = "fetch"
          => /\ run'.sids =
                  {r.sid : r \in {x \in gbs[LocalDatabaseUri] :
                                     /\ x.status \in {"pending", "processing"}
                                     /\ x.topic = run'.topic /\ x.uri = run'.uri}}
             /\ run'.sids # {}
             /\ \A r \in gbs'[LocalDatabaseUri] :
                  r.topic = run'.topic /\ r.uri = run'.uri /\ r.sid \in run'.sids
                  => r.status = "processing"
             /\ UNCHANGED << sources, graphVars >>
        /\ pc = "fetch" /\ pc' = "start"
          => /\ run'.docs = WithContent(run.sids)
             /\ run'.docs # {}
             /\ run'.todo = run'.docs
             /\ run'.sids = run.sids
        /\ pc' = "start" => pc \in {"fetch", "start"}
        /\ pc = "fetch" /\ pc' = "idle" /\ gbs' # gbs
          => /\ WithContent(run.sids) = {}
             /\ \A l \in JobRows(gbs'[LocalDatabaseUri], run.uri) :
                   l.status = "failed" ]_vars

\* C7 case: Build is about to be called for a job of two rows of which one
\* source has no content.
C7_Witness ==
    /\ pc = "start"
    /\ Cardinality(run.sids) = 2
    /\ Cardinality(run.docs) = 1

\* C7 as stated: every source of the job is handed to Build.
C7_AllHandedToBuild ==
    [][ pc = "fetch" /\ pc' = "start" => run'.docs = run.sids ]_vars

C9_UnreachableTenantRecorded ==
    [][ pc = "fetch" /\ ~CanOpen(run.uri) /\ pc' = "idle"
        => \A l \in JobRows(gbs'[LocalDatabaseUri], run.uri) :
              l.status = "failed" ]_vars

\* C10: a request rejected by a precondition of the upload has created no
\* SourceData, ContentStore or GraphBuildStatus row.
C10_RejectedChangesNothing ==
    resp.rejected => resp.created = 0

\* C11: a request in which a file was ingested is answered 200, with every
\* file of the batch counted as processed or as failed.
C11_PartialBatchSucceeds ==
    [][ req.active /\ ~req'.active /\ req.ok > 0
        => resp'.code = 200 /\ resp'.ok + resp'.failed = resp'.total ]_vars

\* C12: every local row with a non-empty external_database_uri T has, in
\* tenant store T, a row of the same topic and source with
\* external_database_uri "".
C12_MirrorHasTenantRow ==
    \A l \in gbs[LocalDatabaseUri] :
       l.uri # ""
       => /\ l.uri \in Tenants
          /\ \E t \in gbs[l.uri] : t.topic = l.topic /\ t.sid = l.sid /\ t.uri = ""

\* C12 case: one source has its tenant row and its local mirror, and another
\* has its tenant row alone, the write of its mirror having failed.
C12_Witness ==
    \E t \in Tenants :
       /\ \E l \in gbs[LocalDatabaseUri] : l.uri = t
       /\ \E r \in gbs[t] :
            \A l \in gbs[LocalDatabaseUri] :
               ~(l.uri = t /\ l.topic = r.topic /\ l.sid = r.sid)

\* The raw contents a file can have.
Bytes == {f.bytes : f \in UploadFiles}

\* C13: in every state, an Ingest of any bytes under a link that a SourceData
\* row of the target store already has returns the id of that row, adds no
\* SourceData and no ContentStore row and leaves the rows as they are.
C13_IngestIdempotentByLink ==
    \A st \in Stores : \A s \in sources[st] : \A bytes \in Bytes :
       LET r == ExtractKnowledge(st, bytes, s.link)
       IN /\ r.sid = s.id
          /\ r.sources = sources[st]
          /\ r.content = content[st]
          /\ r.created = 0

\* C13 case: two files with different bytes were uploaded under one link,
\* and the second upload returned the one SourceData row without creating a
\* row.
C13_Witness ==
    /\ resp.code = 200 /\ resp.ok = 1 /\ resp.created = 0
    /\ disk[<< "a", "a.md" >>] = "c1"
    /\ disk[<< "a", "b.sql" >>] = "c2"
    /\ Cardinality(sources[LocalDatabaseUri]) = 1
    /\ Cardinality(content[LocalDatabaseUri]) = 1
    /\ sources["t1"] = {}

\* C14: a store has one ContentStore row per content_hash, every SourceData
\* row references one, and an Ingest never removes or changes a ContentStore
\* row: of byte-identical content under a new link it adds one SourceData
\* row, which references the existing ContentStore row, and no ContentStore
\* row.
C14_OneContentRowPerHash ==
    \A st \in Stores :
       /\ \A c, e \in content[st] : c.hash = e.hash => c = e
       /\ \A s \in sources[st] : FindContentStore(content[st], s.hash) # {}
       /\ \A link \in Links : \A bytes \in Bytes :
            LET r == ExtractKnowledge(st, bytes, link)
            IN /\ content[st] \subseteq r.content
               /\ ( /\ \A s \in sources[st] : s.link # link
                    /\ \E c \in content[st] : c.hash = Sha256(bytes) )
                  => /\ r.content = content[st]
                     /\ Cardinality(r.sources) = Cardinality(sources[st]) + 1
                     /\ sources[st] \subseteq r.sources
                     /\ \A s \in r.sources \ sources[st] : s.hash = Sha256(bytes)

\* C14 case: a store holds two SourceData rows of the same content under two
\* links, and one ContentStore row.
C14_Witness ==
    \E st \in Stores :
       /\ \E s, t \in sources[st] : s.link # t.link /\ s.hash = t.hash
       /\ Cardinality(content[st]) = 1

C16_EndpointsExist ==
    \A st \in Stores : \A r \in rel[st] : r.src \in ent[st] /\ r.tgt \in ent[st]

\* The entities a step removes from the local store, and those it adds.
Removed == ent[LocalDatabaseUri] \ ent'[LocalDatabaseUri]
Added == ent'[LocalDatabaseUri] \ ent[LocalDatabaseUri]

\* C17: a step in which an entity merge commits removes the originals it
\* found and adds one merged entity; afterwards no Relationship and no
\* entity mapping points at a removed entity, and each that did points at the
\* merged entity, every other row being as before. A merge that fails
\* changes no row.
C17_EntityMergeRepairsReferences ==
    [][ /\ opt'.last.op = "merge_entity" /\ opt'.merges # opt.merges /\ opt'.last.ok
          => /\ Removed = ent[LocalDatabaseUri] \cap opt'.last.ids
             /\ Removed # {}
             /\ Cardinality(Added) = 1
             /\ \A r \in rel'[LocalDatabaseUri] :
                  r.src \notin Removed /\ r.tgt \notin Removed
             /\ \A m \in sgm'[LocalDatabaseUri] :
                  m.type = "entity" => m.elem \notin Removed
             /\ \A r \in rel[LocalDatabaseUri] :
                  \E q \in rel'[LocalDatabaseUri] :
                     /\ q.id = r.id /\ q.desc = r.desc
                     /\ q.src = IF r.src \in Removed THEN CHOOSE e \in Added : TRUE
                                ELSE r.src
                     /\ q.tgt = IF r.tgt \in Removed THEN CHOOSE e \in Added : TRUE
                                ELSE r.tgt
             /\ Cardinality(rel'[LocalDatabaseUri]) = Cardinality(rel[LocalDatabaseUri])
             /\ \A m \in sgm[LocalDatabaseUri] :
                  \E q \in sgm'[LocalDatabaseUri] :
                     /\ q.id = m.id /\ q.sid = m.sid /\ q.type = m.type
                     /\ q.elem = IF m.type = "entity" /\ m.elem \in Removed
                                   THEN CHOOSE e \in Added : TRUE ELSE m.elem
             /\ Cardinality(sgm'[LocalDatabaseUri]) = Cardinality(sgm[LocalDatabaseUri])
        /\ opt'.last.op = "merge_entity" /\ opt'.merges # opt.merges /\ ~opt'.last.ok
          => /\ UNCHANGED << ent, rel, sgm >>
             /\ ~opt'.last.committed ]_vars

\* C17 case: two entities were merged, both endpoints of a relationship and
\* two entity mappings now pointing at the merged entity.
C17_Witness ==
    /\ opt.last.op = "merge_entity" /\ opt.last.ok
    /\ Cardinality(opt.last.ids \ {GoneEntity}) = 2
    /\ \E r \in rel[LocalDatabaseUri] : r.src = r.tgt /\ r.src.name = "M"
    /\ \E m, q \in sgm[LocalDatabaseUri] :
         m # q /\ m.type = "entity" /\ m.elem = q.elem /\ m.elem.name = "M"

\* The relationships a step removes from the local store, and those it adds.
RemovedRels == rel[LocalDatabaseUri] \ rel'[LocalDatabaseUri]
AddedRels == rel'[LocalDatabaseUri] \ rel[LocalDatabaseUri]

\* C18: a step in which a relationship merge commits removes the originals
\* it found and adds exactly one relationship; every relationship mapping
\* that pointed at an original points at the merged id, every other mapping
\* is as before, and the number of mapping rows is the same.
C18_RelationshipMergeKeepsMappings ==
    [][ opt'.last.op = "merge_relationship" /\ opt'.merges # opt.merges
        /\ opt'.last.committed
          => /\ RemovedRels = { r \in rel[LocalDatabaseUri] : r.id \in opt'.last.ids }
             /\ Cardinality(RemovedRels) >= 2
             /\ Cardinality(AddedRels) = 1
             /\ \A m \in sgm'[LocalDatabaseUri] :
                  m.type = "relationship" => m.elem \notin { r.id : r \in RemovedRels }
             /\ \A m \in sgm[LocalDatabaseUri] :
                  \E q \in sgm'[LocalDatabaseUri] :
                     /\ q.id = m.id /\ q.sid = m.sid /\ q.type = m.type
                     /\ q.elem = IF /\ m.type = "relationship"
                                    /\ m.elem \in { r.id : r \in RemovedRels }
                                   THEN (CHOOSE r \in AddedRels : TRUE).id ELSE m.elem
             /\ Cardinality(sgm'[LocalDatabaseUri]) = Cardinality(sgm[LocalDatabaseUri])
             /\ UNCHANGED ent ]_vars

\* C18 case: two relationships of two documents were merged, and the
\* mappings of both documents point at the merged relationship.
C18_Witness ==
    /\ opt.last.op = "merge_relationship" /\ opt.last.committed
    /\ \E r \in rel[LocalDatabaseUri] :
         /\ r.desc = "merged"
         /\ \E m, q \in sgm[LocalDatabaseUri] :
              /\ m.sid # q.sid
              /\ m.type = "relationship" /\ q.type = "relationship"
              /\ m.elem = r.id /\ q.elem = r.id

\* C19: no two issues stored in the optimizer state have the same IssueKey.
C19_IssueKeysDistinct ==
    \A i, j \in DOMAIN opt.issues :
        i # j => IssueKey(opt.issues[i]) # IssueKey(opt.issues[j])

\* The number of stored issues that are resolved.
ResolvedCount(issues) == Cardinality({ i \in DOMAIN issues : issues[i].is_resolved })

\* C20: a run of the optimizer after the first, on a graph that was not
\* changed, adds no issue to the state, changes no entity and no
\* relationship, and leaves the number of resolved issues as it was.
C20_SecondRunIsNoOp ==
    [][ opt.runs >= 1 /\ opt'.runs = opt.runs + 1
          => /\ Len(opt'.issues) = Len(opt.issues)
             /\ ResolvedCount(opt'.issues) = ResolvedCount(opt.issues)
             /\ UNCHANGED << ent, rel >> ]_vars

\* C21: the confidence of every row of the issue data frame is 0.9 times the
\* number of critics whose stored response says the issue is valid, so at
\* most 0.9 times the number of critics: no critic adds twice.
C21_ScoreBoundedByCritics ==
    \A i \in DOMAIN opt.df :
        /\ opt.df[i].confidence
             = 9 * Cardinality({ c \in CriticNames : opt.df[i].critic[c] = "valid" })
        /\ opt.df[i].confidence <= 9 * Len(Critics)

\* C21 case: a batch was run over rows that carried a critic's response and
\* passed over them, and a row has the score of both critics.
C21_Witness ==
    /\ opt.last.op = "batch_evaluate_issues"
    /\ opt.last.ids # {}
    /\ \E i \in DOMAIN opt.df : opt.df[i].confidence = 9 * Len(Critics)

\* C22: a step changes is_resolved of a stored issue only from false to
\* true and only when the issue's validation_score is at least the
\* confidence threshold; a stored issue that is resolved has such a score,
\* and after a run no issue with such a score is left unresolved.
C22_ResolvedOnlyAboveThreshold ==
    [][ /\ \A i \in DOMAIN opt.issues :
             /\ i \in DOMAIN opt'.issues
             /\ opt'.issues[i].is_resolved # opt.issues[i].is_resolved
                  => /\ ~opt.issues[i].is_resolved
                     /\ opt'.issues[i].is_resolved
                     /\ opt.issues[i].validation_score >= ConfidenceThreshold
        /\ \A i \in DOMAIN opt'.issues :
             opt'.issues[i].is_resolved
               <=> opt'.issues[i].validation_score >= ConfidenceThreshold ]_vars

\* C22 case: after two runs one stored issue is resolved and another, below
\* the threshold, is not.
C22_Witness ==
    /\ opt.runs >= 2
    /\ \E i, j \in DOMAIN opt.issues :
         /\ opt.issues[i].is_resolved
         /\ opt.issues[i].validation_score >= ConfidenceThreshold
         /\ ~opt.issues[j].is_resolved
         /\ opt.issues[j].critic_evaluations > 0
         /\ opt.issues[j].validation_score < ConfidenceThreshold

\* C24: in every store no two Entity rows have the same name and topic_name.
C24_EntityNameUniqueInTopic ==
    \A st \in Stores : \A e, f \in ent[st] :
        e.name = f.name /\ e.topic = f.topic => e = f

\* C25: in every store no two Relationship rows have the same source,
\* target and relationship_desc.
C25_RelationshipUnique ==
    \A st \in Stores : \A r, q \in rel[st] :
        r.src = q.src /\ r.tgt = q.tgt /\ r.desc = q.desc => r = q

\* C26: a step in which the relationship-quality resolver commits leaves
\* the topic_name and the category of every relationship as they were.
C26_RefinementKeepsTopicAndCategory ==
    [][ opt'.last.op = "refine_relationship" /\ opt'.merges # opt.merges
          => \A r \in rel[LocalDatabaseUri] : \A q \in rel'[LocalDatabaseUri] :
                q.id = r.id => /\ q.attrs.topic_name = r.attrs.topic_name
                               /\ q.attrs.category = r.attrs.category ]_vars

\* C27: all local rows in processing have one (topic_name,
\* external_database_uri).
C27_OneJobInProgress ==
    \A r, q \in gbs[LocalDatabaseUri] :
        r.status = "processing" /\ q.status = "processing"
          => r.topic = q.topic /\ r.uri = q.uri

\* C28: a step that ends a job changes, in every store, only
\* GraphBuildStatus rows of the job's topic whose source_id is in the batch
\* selected when the job started (in the local store those with the job's
\* external_database_uri, in the job's tenant store those with the empty
\* one), and adds or removes no row.
C28_FinalStatusOnlyBatch ==
    [][ pc # "idle" /\ pc' = "idle"
          => \A st \in Stores :
               /\ Cardinality(gbs'[st]) = Cardinality(gbs[st])
               /\ \A r \in gbs[st] :
                    \/ r \in gbs'[st]
                    \/ /\ r.topic = run.topic
                       /\ r.sid \in run.sids
                       /\ st = LocalDatabaseUri => r.uri = run.uri
                       /\ st # LocalDatabaseUri => st = StoreOf(run.uri) /\ r.uri = "" ]_vars

\* C28 case: Build has returned for a tenant's job, and a row of the same
\* topic and tenant that is not in the job's batch is pending in both stores
\* (it was uploaded after the job started).
C28_Witness ==
    /\ pc = "final"
    /\ ~IsLocalMode(run.uri)
    /\ \E q \in gbs[LocalDatabaseUri] :
         /\ q.topic = run.topic /\ q.uri = run.uri /\ q.sid \notin run.sids
         /\ q.status = "pending"
         /\ \E t \in gbs[StoreOf(run.uri)] :
              t.topic = q.topic /\ t.sid = q.sid /\ t.status = "pending"

\* The texts with which a step fails rows of the local store.
FailedWith ==
    { r.err : r \in { x \in gbs'[LocalDatabaseUri] :
                        x.status = "failed" /\ x \notin gbs[LocalDatabaseUri] } }

\* C29: a triplet's transaction is attempted at most max_retries times; it
\* is attempted again only after a lost connection and only when fewer than
\* max_retries attempts were made; when the job is failed with the error of
\* a transaction, that error is not a lost connection or it is the error of
\* the last attempt allowed.
C29_AtMostThreeAttempts ==
    [][ /\ run.attempt < max_retries
        /\ run'.attempt > run.attempt
             => /\ run'.attempt = run.attempt + 1
                /\ run'.attempt < max_retries
                /\ run'.error \in ConnectionLost
                /\ UNCHANGED << gbs, graphVars, pc >>
        /\ pc = "convert" /\ FailedWith \cap Errors # {}
             => /\ FailedWith \cap ConnectionLost # {} => run.attempt = max_retries - 1
                /\ pc' = "idle" ]_vars

\* C29 case: the third attempt of a triplet's transaction is under way, after
\* two lost connections.
C29_Witness ==
    /\ pc = "convert"
    /\ run.attempt = max_retries - 1
    /\ run.error \in ConnectionLost

\* C30: when the transaction of a triplet fails with an error that is no
\* lost connection, the rows committed for earlier triplets stay, and the
\* build goes on with the remaining triplets of the document.
C30_OtherErrorAbortsTripletOnly ==
    [][ pc = "convert" /\ FailedWith \cap (Errors \ ConnectionLost) # {}
          => /\ UNCHANGED graphVars
             /\ pc' # "idle"
             /\ run'.trip = Tail(run.trip) ]_vars

\* C23: on a step of the processor, an issue whose resolver did not succeed
\* is not put into issue_cache, its resolver has changed no row of the
\* graph, and its row is still in the saved data frame and pending for the
\* next run; when no resolver succeeded the graph is as it was.
C23_FailedIssueStaysPending ==
    [][ opt'.last.op = "process_issues_by_type" /\ opt'.runs # opt.runs
          => /\ opt'.df = opt.df
             /\ \A k \in DOMAIN opt'.last.results :
                  LET result == opt'.last.results[k]
                  IN ~result.success
                       => /\ ~result.changed
                          /\ result.issue_key \notin opt'.cache
                          /\ \E i \in DOMAIN opt'.df :
                               opt'.df[i].issue_key = result.issue_key
             /\ (\A k \in DOMAIN opt'.last.results : ~opt'.last.results[k].success)
                  => UNCHANGED << ent, rel, sgm >> ]_vars

\* C23 case: in a second run of the processor an issue that failed in the
\* first run was taken up again and resolved.
C23_Witness ==
    /\ opt.last.op = "process_issues_by_type"
    /\ opt.runs >= 2
    /\ \E k \in DOMAIN opt.last.results :
         opt.last.results[k].success /\ opt.last.results[k].changed
    /\ Cardinality(opt.cache) < Len(opt.df)

\* C31: on a step of the processor, a resolver that finds one of its
\* affected rows removed by a resolver before it changes no row of the
\* graph.
C31_MissingRowsAreSkipped ==
    [][ opt'.last.op = "process_issues_by_type" /\ opt'.runs # opt.runs
          => \A k \in DOMAIN opt'.last.results :
               opt'.last.results[k].missing => ~opt'.last.results[k].changed ]_vars

\* C32: a step on which an issue becomes resolved is a step on which a
\* resolver has committed a change to the graph.
C32_ResolvedOnlyByResolver ==
    [][ (\E i \in DOMAIN opt'.issues :
            /\ opt'.issues[i].is_resolved
            /\ i \in DOMAIN opt.issues => ~opt.issues[i].is_resolved)
          => /\ opt'.last.committed
             /\ << ent, rel, sgm >>' # << ent, rel, sgm >> ]_vars

C34_BatchesOfMaxConcurrentIssues ==
    /\ [](/\ Cardinality(opt.proc.running) <= max_concurrent_issues
          /\ \A k \in DOMAIN opt.proc.handed : opt.proc.handed[k] <= 1)
    /\ [][ /\ opt'.proc.batches > opt.proc.batches
              => /\ opt.proc.running = {}
                 /\ opt.proc.saved = opt.proc.batches
           /\ opt.proc.phase # "idle" /\ opt'.proc.phase = "idle"
              => /\ opt.proc.saved = opt.proc.batches
                 /\ \A k \in DOMAIN opt.proc.handed :
                      opt.proc.handed[k] = IF k \in opt.proc.keys THEN 1 ELSE 0 ]_vars

\* C34 case: a second batch has been started in a call with more pending
\* issues than max_concurrent_issues, after a batch in which
\* max_concurrent_issues resolvers had run.
C34_Witness ==
    /\ opt.proc.phase = "wait"
    /\ opt.proc.batches = 2
    /\ Cardinality(opt.proc.keys) > max_concurrent_issues
    /\ opt.proc.running # {}

\* C35: a step in which a relationship merge commits merges originals over
\* one or two entities; the merged relationship has the endpoints the LLM
\* returned when both are endpoints of the originals, and those of the first
\* original otherwise; both its endpoints are endpoints of the originals.
C35_MergedEndpointsAsReturned ==
    [][ opt'.last.op = "merge_relationship" /\ opt'.merges # opt.merges
        /\ opt'.last.committed
          => LET entity_pairs == { r.src : r \in RemovedRels }
                                   \cup { r.tgt : r \in RemovedRels }
                 returned == {opt'.last.source_entity_id, opt'.last.target_entity_id}
             IN /\ Cardinality(entity_pairs) \in {1, 2}
                /\ \A m \in AddedRels :
                     /\ {m.src, m.tgt} \subseteq entity_pairs
                     /\ IF returned \subseteq entity_pairs
                          THEN /\ m.src = opt'.last.source_entity_id
                               /\ m.tgt = opt'.last.target_entity_id
                          ELSE /\ m.src = opt'.last.first.src
                               /\ m.tgt = opt'.last.first.tgt ]_vars

\* C36: for every tenant URI at most one engine with its session factory is
\* created, every get_session_factory that returned a factory for the URI
\* returned the one in the registry, and a call that raised has left no
\* entry.
C36_OneFactoryPerUri ==
    /\ \A t \in Tenants : db.created[t] <= 1
    /\ \A p \in Threads :
         db.th[p].at = "idle" /\ db.th[p].returned.kind = "sessionmaker"
           => db.th[p].returned.n = db.user_connections[db.th[p].uri]
    /\ \A t \in Tenants : ~up[t] => db.user_connections[t] = 0

\* C37: when convert_reasoning_results_to_graph has returned for source S,
\* every enhanced relationship of the call, created or found, has a
\* relationship row with a SourceGraphMapping of S in the topic, and every
\* relationship that was there before has the relationship_desc it had.
C37_ReasoningMapsEveryRelationship ==
    [][ opt'.last.op = "convert_reasoning_results" /\ opt'.merges # opt.merges
        /\ opt'.last.ok
          => /\ \A i \in DOMAIN opt'.last.results :
                  \E q \in rel'[LocalDatabaseUri] :
                     /\ q.src.name = opt'.last.results[i].s /\ q.src.topic = "a"
                     /\ q.tgt.name = opt'.last.results[i].o /\ q.tgt.topic = "a"
                     /\ q.desc = opt'.last.results[i].p
                     /\ \E m \in sgm'[LocalDatabaseUri] :
                          /\ m.sid = opt'.last.source_id /\ m.elem = q.id
                          /\ m.type = "relationship" /\ m.topic = "a"
             /\ \A r \in rel[LocalDatabaseUri] :
                  \E q \in rel'[LocalDatabaseUri] : q.id = r.id /\ q.desc = r.desc ]_vars

\* C38: every Entity row of every store has topic_name and category in its
\* attributes.
C38_EntitiesCarryTopicAndCategory ==
    \A st \in Stores : \A e \in ent[st] : e.topic # "none" /\ e.category # "none"

\* C39: a step of an upload request that creates a SourceData row gives the
\* row the SHA-256 of the bytes of the file uploaded in this request.
C39_HashOfUploadedBytes ==
    [][ req.active /\ req.files # << >>
          => \A st \in Stores : \A s \in sources'[st] \ sources[st] :
                s.hash = Sha256(Head(req.files).bytes) ]_vars

\* An optimizer configured with the URI of a tenant store; the local store
\* and the tenant store each hold a graph that triplets have built.
InitTenant ==
    /\ up = [t \in Tenants |-> TRUE]
    /\ disk = [k \in Topics \X Names |-> "none"]
    /\ content = [st \in Stores |-> { [hash |-> Sha256("c1"), link |-> "l1"] }]
    /\ sources = [st \in Stores |->
                     { [id |-> << st, "l1", 0 >>, link |-> "l1",
                        hash |-> Sha256("c1")] }]
    /\ gbs = [st \in Stores |-> {}]
    /\ clock = 0
    /\ bp = [st \in Stores |-> [t \in Topics |-> 0]]
    /\ \E database_uri \in Tenants :
       \E local \in UNION { [1..n -> OptTriplets] : n \in 1..2 } :
       \E tenant \in [1..1 -> OptTriplets] :
         LET g == [st \in Stores |->
                     OptGraph([ent |-> {}, rel |-> {}, sgm |-> {}],
                              << [sid |-> << st, "l1", 0 >>,
                                  triplets |-> IF st = LocalDatabaseUri
                                                 THEN local ELSE tenant] >>)]
         IN /\ ent = [st \in Stores |-> g[st].ent]
            /\ rel = [st \in Stores |-> g[st].rel]
            /\ sgm = [st \in Stores |-> g[st].sgm]
            /\ opt = [NoOpt EXCEPT !.database_uri = database_uri]
    /\ pc = "idle"
    /\ run = NoRun
    /\ req = NoReq
    /\ nreq = 0
    /\ resp = NoResponse
    /\ par = [p \in Procs |-> NoIngest]
    /\ db = NoDb

\* The resolvers as the processor of that optimizer calls them: each opens
\* its session with SessionLocal.
NextTenant ==
    \/ MergeEntity
    \/ MergeRelationship
    \/ RefineRelationship

SpecTenant == InitTenant /\ [][NextTenant]_vars

====
